---- MODULE Spec2Model ----
(***************************************************************************)
(* A model of gmail-processor: the rule engine (src/src/rule_engine.py),   *)
(* the SQLite store (src/src/email_storage.py) and the label mutation sink *)
(* (src/src/gmail_client.py).                                              *)
(*                                                                         *)
(* A Python string the code searches or transforms (a label, a header, a   *)
(* field name, a mode) is a sequence of one-character strings, so that     *)
(* `in`, lower() and json.dumps are computed and not assumed; a string the *)
(* code only compares with its own literals (an action type, a predicate   *)
(* name) is a TLA+ string.  A Python dict is a record; a key the dict      *)
(* lacks is a field the record lacks.                                      *)
(***************************************************************************)
EXTENDS Integers, Sequences, FiniteSets, TLC

VARIABLES
    \* ---- action application (RuleEngine.apply_actions, GmailClient.modify_email)
    msgLabels,      \* the labels the provider holds for the message
    actionArg,      \* the action list apply_actions is called with
    passes,         \* one record per apply_actions invocation, oldest first
    modifyLog,      \* the calls received by client.modify_email, oldest first
    \* ---- storage (EmailStorage)
    rows,           \* the emails table, in rowid order
    clock,          \* the wall clock read by time.time(), in seconds
    lastSave,       \* the last storage call: its name and, of save_email, the
                    \* message_id and Date header passed, the clock reading,
                    \* the formats tried, the date returned and whether the
                    \* INSERT made a new row
    firstWrite,     \* history: message_id -> the values of its first upsert
    lastWrite,      \* history: message_id -> the record of its latest upsert
    \* ---- rule evaluation (RuleEngine.evaluate)
    ruleSource,     \* the rules file the engine is constructed from
    engine,         \* "unbuilt", "built", or the exception the constructor raised
    rules,          \* self.rules, as `for rule in self.rules` walks it
    evalArg,        \* the stored row evaluate is called with
    evalResult,     \* what the last call of evaluate did
    \* ---- predicate calls (RuleEngine.PREDICATES)
    predArgs,       \* the field value and the target the predicates are called with
    predResult,     \* predicate name -> the outcome of its call, or "uncalled"
    \* ---- the mailbox provider and the client (GmailClient)
    remote,         \* the provider: the pages it lists, the labels of each message
    clientCall,     \* the last call of a client operation and how it ended
    \* ---- one run of main
    run,            \* where main is, what it holds and the calls it has made
    \* ---- one call of GmailClient.fetch_inbox_emails, step by step
    fetch,          \* where the call is: the page token, the ids listed, the emails
                    \* built and, as history, the tokens of the list calls answered
    \* ---- one call of GmailClient._authenticate
    auth,           \* where the call is, the token file, the credentials held and,
                    \* as history, what the token file gave and the calls made
    \* ---- one list of records saved in the two ways the store offers
    twin            \* the table before, the list, the table save_emails leaves and
                    \* the table after save_email on the first records of the list

applyVars == <<msgLabels, actionArg, passes, modifyLog>>
storeVars == <<rows, clock, lastSave, firstWrite, lastWrite>>
evalVars == <<ruleSource, engine, rules, evalArg, evalResult>>
predVars == <<predArgs, predResult>>
clientVars == <<remote, clientCall>>
mainVars == <<run>>
fetchVars == <<fetch>>
authVars == <<auth>>
twinVars == <<twin>>
vars == <<applyVars, storeVars, evalVars, predVars, clientVars, mainVars, fetchVars, authVars, twinVars>>

----------------------------------------------------------------------------
(* Sequences *)

Range(s) == {s[i] : i \in 1..Len(s)}

SeqsUpTo(S, n) == UNION {[1..k -> S] : k \in 0..n}

NoDup(s) == \A i, j \in 1..Len(s) : i # j => s[i] # s[j]

RECURSIVE Flatten(_)
Flatten(ss) == IF ss = <<>> THEN <<>> ELSE Head(ss) \o Flatten(Tail(ss))

----------------------------------------------------------------------------
(* Python values, tagged with their type *)

PyStr(s) == [kind |-> "str", s |-> s]
PyInt(n) == [kind |-> "int", n |-> n]
PyList(items) == [kind |-> "list", items |-> items]
Timedelta(secs) == [kind |-> "timedelta", secs |-> secs]

\* `target in value` for two strings
IsSubstring(t, v) ==
    \E i \in 0..(Len(v) - Len(t)) : SubSeq(v, i + 1, i + Len(t)) = t

----------------------------------------------------------------------------
(* Label names *)

UNREAD == <<"U", "N", "R", "E", "A", "D">>
INBOX == <<"I", "N", "B", "O", "X">>
ARCHIVE == <<"A", "R", "C", "H", "I", "V", "E">>

MSG_ID == <<"m", "1">>

\* a label whose name contains the names of two other labels
L1_UNREAD == <<"L", "1", "_", "U", "N", "R", "E", "A", "D">>

----------------------------------------------------------------------------
(* Bounds of the action-application model *)

MaxActions == 3
MaxPasses == 2

LabelUniverse == {UNREAD, INBOX, ARCHIVE}

\* label lists as the provider returns them: no label twice
LabelLists == {l \in SeqsUpTo(LabelUniverse, Cardinality(LabelUniverse)) : NoDup(l)}

ActionUniverse ==
    { [type |-> "mark_read"],
      [type |-> "mark_unread"],
      [type |-> "move_message", mailbox |-> ARCHIVE],
      [type |-> "move_message", mailbox |-> UNREAD],
      [type |-> "move_message"] }

ActionLists == SeqsUpTo(ActionUniverse, MaxActions)

----------------------------------------------------------------------------
(* RuleEngine.apply_actions *)

\* Python's `x in labels`: membership in a list of labels, or the substring
\* test when labels is a string (main passes the JSON text of the column)
InList(x, labels) ==
    IF labels.kind = "str" THEN IsSubstring(x, labels.s)
    ELSE \E i \in 1..Len(labels.items) : labels.items[i] = x

\* variant: mark_read removes UNREAD without looking at the labels
apply_one_mutant_read(acc, action, labels) ==
    IF acc.status # "ok" THEN acc
    ELSE IF action.type = "move_message" THEN
        IF "mailbox" \notin DOMAIN action THEN [acc EXCEPT !.status = "KeyError"]
        ELSE IF ~InList(action.mailbox, labels)
             THEN [acc EXCEPT !.add = Append(@, action.mailbox)]
             ELSE acc
    ELSE IF action.type = "mark_read" THEN
        [acc EXCEPT !.remove = Append(@, UNREAD)]
    ELSE IF action.type = "mark_unread" /\ ~InList(UNREAD, labels)
         THEN [acc EXCEPT !.add = Append(@, UNREAD)]
    ELSE acc

\* variant: move_message adds its mailbox without looking at the labels
apply_one_mutant_move(acc, action, labels) ==
    IF acc.status # "ok" THEN acc
    ELSE IF action.type = "move_message" THEN
        IF "mailbox" \notin DOMAIN action THEN [acc EXCEPT !.status = "KeyError"]
        ELSE [acc EXCEPT !.add = Append(@, action.mailbox)]
    ELSE IF action.type = "mark_read" /\ InList(UNREAD, labels)
         THEN [acc EXCEPT !.remove = Append(@, UNREAD)]
    ELSE IF action.type = "mark_unread" /\ ~InList(UNREAD, labels)
         THEN [acc EXCEPT !.add = Append(@, UNREAD)]
    ELSE acc

\* variant: the additions are decided against the labels and the list built so far
apply_one_mutant_partial(acc, action, labels) ==
    IF acc.status # "ok" THEN acc
    ELSE IF action.type = "move_message" THEN
        IF "mailbox" \notin DOMAIN action THEN [acc EXCEPT !.status = "KeyError"]
        ELSE IF ~InList(action.mailbox, labels) /\ ~InList(action.mailbox, PyList(acc.add))
             THEN [acc EXCEPT !.add = Append(@, action.mailbox)]
             ELSE acc
    ELSE IF action.type = "mark_read" /\ InList(UNREAD, labels)
         THEN [acc EXCEPT !.remove = Append(@, UNREAD)]
    ELSE IF action.type = "mark_unread" /\ ~InList(UNREAD, labels)
                                        /\ ~InList(UNREAD, PyList(acc.add))
         THEN [acc EXCEPT !.add = Append(@, UNREAD)]
    ELSE acc

\* One iteration of the loop over the actions.  acc is the state of the
\* invocation: the two lists built so far and whether a KeyError was raised.
apply_one(acc, action, labels) ==
    IF acc.status # "ok" THEN acc
    ELSE IF action.type = "move_message" THEN
        \* action['mailbox'] is read on both move_message branches
        IF "mailbox" \notin DOMAIN action THEN [acc EXCEPT !.status = "KeyError"]
        ELSE IF ~InList(action.mailbox, labels)
             THEN [acc EXCEPT !.add = Append(@, action.mailbox)]
             ELSE acc
    ELSE IF action.type = "mark_read" /\ InList(UNREAD, labels)
         THEN [acc EXCEPT !.remove = Append(@, UNREAD)]
    ELSE IF action.type = "mark_unread" /\ ~InList(UNREAD, labels)
         THEN [acc EXCEPT !.add = Append(@, UNREAD)]
    ELSE acc

RECURSIVE apply_loop(_, _, _)
apply_loop(acc, actions, labels) ==
    IF actions = <<>> THEN acc
    ELSE apply_loop(apply_one(acc, Head(actions), labels), Tail(actions), labels)

\* add_labels, remove_labels = [], [] and the loop
compute_delta(labels, actions) ==
    apply_loop([status |-> "ok", add |-> <<>>, remove |-> <<>>], actions, labels)

\* `if add_labels or remove_labels:` the guard of the call of the sink
\* variant: the sink is called whatever the lists hold
sink_wanted_mutant(d) == TRUE

sink_wanted(d) == d.add # <<>> \/ d.remove # <<>>

----------------------------------------------------------------------------
(* GmailClient.modify_email: the provider adds addLabelIds and removes      *)
(* removeLabelIds of the message                                            *)

RECURSIVE AddMissing(_, _)
AddMissing(labels, add) ==
    IF add = <<>> THEN labels
    ELSE AddMissing(IF InList(Head(add), PyList(labels)) THEN labels
                    ELSE Append(labels, Head(add)), Tail(add))

modify_email(labels, add, remove) ==
    SelectSeq(AddMissing(labels, add), LAMBDA l : ~InList(l, PyList(remove)))

----------------------------------------------------------------------------
(* EmailStorage: date parsing.  A Date header is the sequence of its        *)
(* space-separated words.                                                   *)

SecondsPerDay == 86400

Weekdays == {"Thu,", "Sat,"}
DayOfMonth == [w \in {"01", "03"} |-> IF w = "01" THEN 0 ELSE 2]
Months == {"Jan"}
Years == {"1970"}
TimeOfDay == [w \in {"00:00:10", "00:00:20"} |-> IF w = "00:00:10" THEN 10 ELSE 20]
ZoneOffset == [w \in {"+0000", "-0001"} |-> IF w = "+0000" THEN 0 ELSE -60]
Comments == {"(UTC)"}

\* email['date_received'].split(' (')[0]: what precedes the first " ("
RECURSIVE split_comment(_, _)
split_comment(words, k) ==
    IF k > Len(words) THEN words
    ELSE IF k > 1 /\ words[k] \in Comments THEN SubSeq(words, 1, k - 1)
    ELSE split_comment(words, k + 1)

date_formats ==
    << <<"%a,", "%d", "%b", "%Y", "%H:%M:%S", "%z">>,
       <<"%d", "%b", "%Y", "%H:%M:%S", "%z">> >>

Matches(word, directive) ==
    CASE directive = "%a," -> word \in Weekdays
      [] directive = "%d" -> word \in DOMAIN DayOfMonth
      [] directive = "%b" -> word \in Months
      [] directive = "%Y" -> word \in Years
      [] directive = "%H:%M:%S" -> word \in DOMAIN TimeOfDay
      [] directive = "%z" -> word \in DOMAIN ZoneOffset

\* datetime.strptime(date_str, date_format): FALSE stands for ValueError
strptime_ok(words, format) ==
    /\ Len(words) = Len(format)
    /\ \A k \in 1..Len(format) : Matches(words[k], format[k])

\* int(datetime.strptime(...).timestamp()) of a string that matched
timestamp(words) ==
    LET n == Len(words) IN
        DayOfMonth[words[n - 4]] * SecondsPerDay + TimeOfDay[words[n - 1]]
            - ZoneOffset[words[n]]

\* the loop over date_formats and the fallback to int(time.time())
RECURSIVE try_formats(_, _, _)
try_formats(words, k, now) ==
    IF k > Len(date_formats) THEN now
    ELSE IF strptime_ok(words, date_formats[k]) THEN timestamp(words)
    ELSE try_formats(words, k + 1, now)

\* variant: the comment is left on the string handed to strptime
parse_date_mutant(date_received, now) == try_formats(date_received, 1, now)

parse_date(date_received, now) == try_formats(split_comment(date_received, 1), 1, now)

\* the formats strptime was called with, in the order of the calls: the loop
\* leaves at the first one that parses
RECURSIVE formats_tried(_, _)
formats_tried(words, k) ==
    IF k > Len(date_formats) THEN <<>>
    ELSE IF strptime_ok(words, date_formats[k]) THEN <<k>>
    ELSE <<k>> \o formats_tried(words, k + 1)

----------------------------------------------------------------------------
(* EmailStorage: the upsert *)

\* json.dumps(labels) of a list of strings that need no escaping
RECURSIVE json_items(_)
json_items(labels) ==
    IF labels = <<>> THEN <<>>
    ELSE <<"\"">> \o Head(labels) \o <<"\"">>
         \o (IF Len(labels) > 1 THEN <<",", " ">> ELSE <<>>)
         \o json_items(Tail(labels))

json_dumps(labels) == <<"[">> \o json_items(labels) \o <<"]">>

\* email.get(key, '')
Get(email, key) == IF key \in DOMAIN email THEN email[key] ELSE <<>>

\* the tuple bound to the INSERT statement
insert_values(email, date) ==
    [message_id |-> email.message_id,
     thread_id |-> Get(email, "thread_id"),
     from_email |-> email.from,
     subject |-> email.subject,
     date_received |-> date,
     labels |-> json_dumps(email.labels),
     message |-> Get(email, "message")]

\* INSERT ... ON CONFLICT(message_id) DO UPDATE SET labels = excluded.labels
\* variant: a plain INSERT into a table without the primary key
upsert_mutant_insert(table, new) == Append(table, new)

\* variant: INSERT OR REPLACE
upsert_mutant_replace(table, new) ==
    IF \E i \in 1..Len(table) : table[i].message_id = new.message_id
    THEN [i \in 1..Len(table) |->
            IF table[i].message_id = new.message_id THEN new ELSE table[i]]
    ELSE Append(table, new)

upsert(table, new) ==
    IF \E i \in 1..Len(table) : table[i].message_id = new.message_id
    THEN [i \in 1..Len(table) |->
            IF table[i].message_id = new.message_id
            THEN [table[i] EXCEPT !.labels = new.labels]
            ELSE table[i]]
    ELSE Append(table, new)

\* the table after save_email(email) with the clock at now
save_email_rows(table, email, now) ==
    upsert(table, insert_values(email, parse_date(email.date_received, now)))

\* the body of the loop of save_emails
\* variant: a record whose message_id came earlier in the list is skipped
RECURSIVE save_loop_mutant(_, _, _)
save_loop_mutant(table, emails, now) ==
    IF emails = <<>> THEN table
    ELSE LET rest == SelectSeq(Tail(emails),
                               LAMBDA e : e.message_id # Head(emails).message_id)
         IN  save_loop_mutant(upsert(table, insert_values(Head(emails),
                                       parse_date(Head(emails).date_received, now))),
                              rest, now)

RECURSIVE save_loop(_, _, _)
save_loop(table, emails, now) ==
    IF emails = <<>> THEN table
    ELSE save_loop(upsert(table, insert_values(Head(emails),
                                   parse_date(Head(emails).date_received, now))),
                   Tail(emails), now)

\* the table after save_emails(emails): `if not emails: return`, then the loop
save_emails_rows(table, emails, now) ==
    IF emails = <<>> THEN table ELSE save_loop(table, emails, now)

\* SELECT * FROM emails
get_all_emails == rows

----------------------------------------------------------------------------
(* Records offered to the store *)

MaxBatch == 2
ClockStart == 100
MaxClock == 101

M1 == <<"m", "1">>
M2 == <<"m", "2">>

Date1 == <<"Thu,", "01", "Jan", "1970", "00:00:10", "+0000">>
Date2 == <<"03", "Jan", "1970", "00:00:20", "-0001", "(UTC)">>
NotADate == <<"not", "a", "date">>

\* the full payload of a fetched message, and a minimal one
FullPayload ==
    [thread_id |-> <<"t">>, from |-> <<"a">>, subject |-> <<"x">>, message |-> <<"h", "i">>]
MinimalPayload == [from |-> <<"b">>, subject |-> <<>>]

Email(id, payload, date, labels) ==
    [k \in DOMAIN payload \cup {"message_id", "date_received", "labels"} |->
        CASE k = "message_id" -> id
          [] k = "date_received" -> date
          [] k = "labels" -> labels
          [] OTHER -> payload[k]]

Emails ==
    { Email(M1, FullPayload, Date1, <<INBOX, UNREAD>>),
      Email(M1, FullPayload, Date1, <<INBOX>>),
      Email(M1, MinimalPayload, NotADate, <<INBOX>>),
      Email(M1, FullPayload, Date2, <<INBOX, UNREAD, ARCHIVE>>),
      Email(M2, FullPayload, Date2, <<INBOX>>),
      Email(M2, MinimalPayload, NotADate, <<>>) }

MsgIds == {e.message_id : e \in Emails}

None == [none |-> TRUE]

----------------------------------------------------------------------------
(* The storage machine *)

StoreStart ==
    /\ rows = <<>>
    /\ clock = ClockStart
    /\ lastSave = [op |-> "_init_db"]
    /\ firstWrite = [id \in MsgIds |-> None]
    /\ lastWrite = [id \in MsgIds |-> None]

StoreIdle == StoreStart

\* the history of a sequence of upserts
RECURSIVE NoteFirst(_, _, _)
NoteFirst(fw, emails, now) ==
    IF emails = <<>> THEN fw
    ELSE LET e == Head(emails) IN
         NoteFirst(IF fw[e.message_id] = None
                   THEN [fw EXCEPT ![e.message_id] =
                            [email |-> e, date |-> parse_date(e.date_received, now)]]
                   ELSE fw,
                   Tail(emails), now)

RECURSIVE NoteLast(_, _)
NoteLast(lw, emails) ==
    IF emails = <<>> THEN lw
    ELSE NoteLast([lw EXCEPT ![Head(emails).message_id] = [email |-> Head(emails)]],
                  Tail(emails))

Tick ==
    /\ clock < MaxClock
    /\ clock' = clock + 1
    /\ UNCHANGED <<rows, lastSave, firstWrite, lastWrite, applyVars, evalVars, predVars, clientVars, mainVars, fetchVars, authVars, twinVars>>

save_email(email) ==
    LET date == parse_date(email.date_received, clock) IN
        /\ rows' = save_email_rows(rows, email, clock)
        /\ lastSave' = [op |-> "save_email", returned |-> date,
                        message_id |-> email.message_id,
                        date_received |-> email.date_received,
                        now |-> clock,
                        tried |-> formats_tried(split_comment(email.date_received, 1), 1),
                        inserted |-> \A i \in 1..Len(rows) :
                                        rows[i].message_id # email.message_id]
        /\ firstWrite' = NoteFirst(firstWrite, <<email>>, clock)
        /\ lastWrite' = NoteLast(lastWrite, <<email>>)
        /\ UNCHANGED <<clock, applyVars, evalVars, predVars, clientVars, mainVars, fetchVars, authVars, twinVars>>

\* what save_emails does to the store
save_emails_effect(emails) ==
    /\ rows' = save_emails_rows(rows, emails, clock)
    /\ lastSave' = [op |-> "save_emails"]
    /\ firstWrite' = NoteFirst(firstWrite, emails, clock)
    /\ lastWrite' = NoteLast(lastWrite, emails)

save_emails(emails) ==
    /\ save_emails_effect(emails)
    /\ UNCHANGED <<clock, applyVars, evalVars, predVars, clientVars, mainVars, fetchVars, authVars, twinVars>>

SaveEmail == \E email \in Emails : save_email(email)

SaveEmails == \E emails \in SeqsUpTo(Emails, MaxBatch) : save_emails(emails)

StoreNext == Tick \/ SaveEmail \/ SaveEmails

----------------------------------------------------------------------------
(* The twin stores: one list of records is saved by save_emails into a copy *)
(* of a table and record by record by save_email into another copy, the     *)
(* clock standing still                                                     *)

\* the tables earlier saves can have left
Tables == { save_emails_rows(<<>>, prior, ClockStart) : prior \in SeqsUpTo(Emails, MaxBatch) }

TwinStart ==
    /\ \E table \in Tables :
         \E n \in 0..MaxBatch : \E emails \in [1..n -> Emails] :
             twin = [before |-> table, emails |-> emails, batch |-> table,
                     called |-> FALSE, single |-> table, saved |-> 0]

TwinIdle == twin = None

\* storage.save_emails(emails) on the first copy
TwinSaveEmails ==
    /\ ~twin.called
    /\ twin' = [twin EXCEPT !.batch = save_emails_rows(twin.before, twin.emails, clock),
                             !.called = TRUE]
    /\ UNCHANGED <<applyVars, storeVars, evalVars, predVars, clientVars, mainVars, fetchVars, authVars>>

\* storage.save_email(email) of the next record on the second copy
TwinSaveEmail ==
    /\ twin.saved < Len(twin.emails)
    /\ twin' = [twin EXCEPT
                  !.single = save_email_rows(@, twin.emails[twin.saved + 1], clock),
                  !.saved = @ + 1]
    /\ UNCHANGED <<applyVars, storeVars, evalVars, predVars, clientVars, mainVars, fetchVars, authVars>>

TwinNext == TwinSaveEmails \/ TwinSaveEmail

----------------------------------------------------------------------------
(* RuleEngine: predicates.  A value is tagged with its Python type.  The    *)
(* outcome of a call is "True", "False" or the exception it raises.         *)

Bool(b) == IF b THEN "True" ELSE "False"

\* bool(value)
Truthy(v) ==
    CASE v.kind = "str" -> v.s # <<>>
      [] v.kind = "int" -> v.n # 0
      [] v.kind = "timedelta" -> v.secs # 0

\* `target in value`
In(target, value) ==
    IF value.kind = "str" /\ target.kind = "str" THEN Bool(IsSubstring(target.s, value.s))
    ELSE "TypeError"

Not(outcome) ==
    CASE outcome = "True" -> "False"
      [] outcome = "False" -> "True"
      [] OTHER -> outcome

\* `value == target`: values of different types are unequal
Eq(value, target) == Bool(value = target)

Digits == <<"0", "1", "2", "3", "4", "5", "6", "7", "8", "9">>

DigitValue(c) == (CHOOSE i \in 1..Len(Digits) : Digits[i] = c) - 1

RECURSIVE DecimalValue(_)
DecimalValue(s) ==
    IF s = <<>> THEN 0
    ELSE 10 * DecimalValue(SubSeq(s, 1, Len(s) - 1)) + DigitValue(s[Len(s)])

\* int(days): FALSE for the strings int() rejects
IntOk(v) ==
    \/ v.kind = "int"
    \/ v.kind = "str" /\ v.s # <<>> /\ \A i \in 1..Len(v.s) : v.s[i] \in Range(Digits)

IntOf(v) == IF v.kind = "int" THEN v.n ELSE DecimalValue(v.s)

\* variant: the comparisons are not strict
DateCompare_mutant(age, days, less) ==
    IF ~IntOk(days) THEN (IF days.kind = "str" THEN "ValueError" ELSE "TypeError")
    ELSE IF age.kind # "timedelta" THEN "TypeError"
    ELSE IF less THEN Bool(age.secs <= IntOf(days) * SecondsPerDay)
    ELSE Bool(age.secs >= IntOf(days) * SecondsPerDay)

\* age < timedelta(days=int(days)) and age > timedelta(days=int(days))
DateCompare(age, days, less) ==
    IF ~IntOk(days) THEN (IF days.kind = "str" THEN "ValueError" ELSE "TypeError")
    ELSE IF age.kind # "timedelta" THEN "TypeError"
    ELSE IF less THEN Bool(age.secs < IntOf(days) * SecondsPerDay)
    ELSE Bool(age.secs > IntOf(days) * SecondsPerDay)

PredicateNames ==
    {"contains", "does_not_contain", "equals", "does_not_equal",
     "less_than_days", "greater_than_days"}

\* variant: contains does not look at the truth value of the field
PREDICATES_mutant(name, value, target) ==
    CASE name = "contains" -> In(target, value)
      [] name = "does_not_contain" -> IF Truthy(value) THEN Not(In(target, value)) ELSE "True"
      [] name = "equals" -> Eq(value, target)
      [] name = "does_not_equal" -> Not(Eq(value, target))
      [] name = "less_than_days" -> DateCompare(value, target, TRUE)
      [] name = "greater_than_days" -> DateCompare(value, target, FALSE)

PREDICATES(name, value, target) ==
    CASE name = "contains" -> IF Truthy(value) THEN In(target, value) ELSE "False"
      [] name = "does_not_contain" -> IF Truthy(value) THEN Not(In(target, value)) ELSE "True"
      [] name = "equals" -> Eq(value, target)
      [] name = "does_not_equal" -> Not(Eq(value, target))
      [] name = "less_than_days" -> DateCompare(value, target, TRUE)
      [] name = "greater_than_days" -> DateCompare(value, target, FALSE)

----------------------------------------------------------------------------
(* RuleEngine: conditions *)

UpperCase == <<"A", "B", "C", "D", "E", "F", "G", "H", "I", "J", "K", "L", "M",
               "N", "O", "P", "Q", "R", "S", "T", "U", "V", "W", "X", "Y", "Z">>
LowerCase == <<"a", "b", "c", "d", "e", "f", "g", "h", "i", "j", "k", "l", "m",
               "n", "o", "p", "q", "r", "s", "t", "u", "v", "w", "x", "y", "z">>

ToLower == [c \in Range(UpperCase) |->
              LowerCase[CHOOSE k \in 1..Len(UpperCase) : UpperCase[k] = c]]

\* str.lower()
Lower(s) == [i \in 1..Len(s) |-> IF s[i] \in DOMAIN ToLower THEN ToLower[s[i]] ELSE s[i]]

F_FROM == <<"f", "r", "o", "m">>
F_SUBJECT == <<"s", "u", "b", "j", "e", "c", "t">>
F_MESSAGE == <<"m", "e", "s", "s", "a", "g", "e">>
F_DATE_RECEIVED == <<"d", "a", "t", "e", "_", "r", "e", "c", "e", "i", "v", "e", "d">>

FieldNames == {F_FROM, F_SUBJECT, F_MESSAGE, F_DATE_RECEIVED}

\* the if/elif chain on field_name; msg is the unpacked row, now the value
\* datetime.now() returned at the top of the call
field_value(msg, field_name, now) ==
    CASE field_name = F_FROM -> PyStr(msg.from_email)
      [] field_name = F_SUBJECT -> PyStr(msg.subject)
      [] field_name = F_MESSAGE -> PyStr(msg.message)
      [] field_name = F_DATE_RECEIVED -> Timedelta(now - msg.date_received)

\* the body of the loop of _all_conditions_met: "True" goes on to the next
\* condition, "False" returns False, anything else is the exception raised
\* variant: an unknown field or predicate is passed over
all_condition_mutant(msg, cond, now) ==
    IF "field" \notin DOMAIN cond THEN "KeyError"
    ELSE IF Lower(cond.field) \notin FieldNames THEN "True"
    ELSE IF "predicate" \notin DOMAIN cond THEN "KeyError"
    ELSE IF cond.predicate \notin PredicateNames THEN "True"
    ELSE IF "value" \notin DOMAIN cond THEN "KeyError"
    ELSE PREDICATES(cond.predicate, field_value(msg, Lower(cond.field), now), cond.value)

all_condition(msg, cond, now) ==
    IF "field" \notin DOMAIN cond THEN "KeyError"
    ELSE IF Lower(cond.field) \notin FieldNames THEN "False"
    ELSE IF "predicate" \notin DOMAIN cond THEN "KeyError"
    ELSE IF cond.predicate \notin PredicateNames THEN "False"
    ELSE IF "value" \notin DOMAIN cond THEN "KeyError"
    ELSE PREDICATES(cond.predicate, field_value(msg, Lower(cond.field), now), cond.value)

RECURSIVE all_conditions_loop(_, _, _)
all_conditions_loop(msg, conditions, now) ==
    IF conditions = <<>> THEN "True"
    ELSE LET r == all_condition(msg, Head(conditions), now) IN
         IF r = "True" THEN all_conditions_loop(msg, Tail(conditions), now) ELSE r

_all_conditions_met(msg, conditions, now) == all_conditions_loop(msg, conditions, now)

\* the body of the loop of _any_conditions_met: "True" returns True, "False"
\* goes on to the next condition (`continue`, or a predicate that is false),
\* anything else is the exception raised
\* variant: an unknown field or predicate counts as met
any_condition_mutant(msg, cond, now) ==
    IF "field" \notin DOMAIN cond THEN "KeyError"
    ELSE IF Lower(cond.field) \notin FieldNames THEN "True"
    ELSE IF "predicate" \notin DOMAIN cond THEN "KeyError"
    ELSE IF cond.predicate \notin PredicateNames THEN "True"
    ELSE IF "value" \notin DOMAIN cond THEN "KeyError"
    ELSE PREDICATES(cond.predicate, field_value(msg, Lower(cond.field), now), cond.value)

any_condition(msg, cond, now) ==
    IF "field" \notin DOMAIN cond THEN "KeyError"
    ELSE IF Lower(cond.field) \notin FieldNames THEN "False"
    ELSE IF "predicate" \notin DOMAIN cond THEN "KeyError"
    ELSE IF cond.predicate \notin PredicateNames THEN "False"
    ELSE IF "value" \notin DOMAIN cond THEN "KeyError"
    ELSE PREDICATES(cond.predicate, field_value(msg, Lower(cond.field), now), cond.value)

RECURSIVE any_conditions_loop(_, _, _)
any_conditions_loop(msg, conditions, now) ==
    IF conditions = <<>> THEN "False"
    ELSE LET r == any_condition(msg, Head(conditions), now) IN
         IF r = "False" THEN any_conditions_loop(msg, Tail(conditions), now) ELSE r

_any_conditions_met(msg, conditions, now) ==
    IF conditions = <<>> THEN "False" ELSE any_conditions_loop(msg, conditions, now)

----------------------------------------------------------------------------
(* RuleEngine.evaluate *)

M_ALL == <<"a", "l", "l">>
M_ANY == <<"a", "n", "y">>

\* an item of self.rules that is not a JSON object: a str or a list
NotADict(py_type) == [py_type |-> py_type]

IsDict(rule) == "py_type" \notin DOMAIN rule

\* variant: a rule without mode is taken as a rule of mode any
rule_mode_mutant(rule) == Lower(IF "mode" \in DOMAIN rule THEN rule.mode ELSE M_ANY)

\* rule.get('mode', 'all').lower()
rule_mode(rule) == Lower(IF "mode" \in DOMAIN rule THEN rule.mode ELSE M_ALL)

\* the condition of the if/elif of the loop body: the mode is compared first
\* and rule['conditions'] is read only for the modes all and any
conditions_met(msg, rule, now) ==
    IF rule_mode(rule) \notin {M_ALL, M_ANY} THEN "False"
    ELSE IF "conditions" \notin DOMAIN rule THEN "KeyError"
    ELSE IF rule_mode(rule) = M_ALL THEN _all_conditions_met(msg, rule.conditions, now)
    ELSE _any_conditions_met(msg, rule.conditions, now)

\* one iteration of `for rule in self.rules`; acc holds applicable_actions,
\* the rules that fired so far and the exception raised, if any
\* variant: the actions of a firing rule go in front of the list
evaluate_rule_mutant(acc, msg, rule, now) ==
    IF acc.status # "ok" THEN acc
    ELSE IF ~IsDict(rule) THEN [acc EXCEPT !.status = "AttributeError"]
    ELSE LET met == conditions_met(msg, rule, now)
         IN  IF met = "True"
             THEN IF "actions" \notin DOMAIN rule THEN [acc EXCEPT !.status = "KeyError"]
                  ELSE [acc EXCEPT !.actions = rule.actions \o @, !.fired = Append(@, TRUE)]
             ELSE IF met = "False" THEN [acc EXCEPT !.fired = Append(@, FALSE)]
             ELSE [acc EXCEPT !.status = met]

evaluate_rule(acc, msg, rule, now) ==
    IF acc.status # "ok" THEN acc
    ELSE IF ~IsDict(rule) THEN [acc EXCEPT !.status = "AttributeError"]
    ELSE LET met == conditions_met(msg, rule, now)
         IN  IF met = "True"
             THEN IF "actions" \notin DOMAIN rule THEN [acc EXCEPT !.status = "KeyError"]
                  ELSE [acc EXCEPT !.actions = @ \o rule.actions, !.fired = Append(@, TRUE)]
             ELSE IF met = "False" THEN [acc EXCEPT !.fired = Append(@, FALSE)]
             ELSE [acc EXCEPT !.status = met]

RECURSIVE evaluate_loop(_, _, _, _, _)
evaluate_loop(acc, msg, rs, nows, k) ==
    IF k > Len(rs) THEN acc
    ELSE evaluate_loop(evaluate_rule(acc, msg, rs[k], nows[k]), msg, rs, nows, k + 1)

\* evaluate on a row of the emails table (the tuple branch, the one main
\* takes); nows[k] is what datetime.now() returns in the condition check of
\* the k-th rule
evaluate(msg, rs, nows) ==
    evaluate_loop([status |-> "ok", actions |-> <<>>, fired |-> <<>>], msg, rs, nows, 1)

----------------------------------------------------------------------------
(* Rule sets and rows offered to evaluate *)

MaxRules == 2
MaxConds == 2
Now0 == 200000

Conditions ==
    { [field |-> <<"F", "r", "o", "m">>, predicate |-> "contains", value |-> PyStr(<<"a">>)],
      [field |-> F_DATE_RECEIVED, predicate |-> "less_than_days", value |-> PyInt(1)],
      [field |-> <<"t", "o">>, predicate |-> "contains", value |-> PyStr(<<"a">>)],
      [field |-> F_SUBJECT, predicate |-> "Contains", value |-> PyStr(<<"x">>)],
      [field |-> F_SUBJECT, predicate |-> "less_than_days", value |-> PyInt(1)] }

Modes == { M_ALL, <<"A", "N", "Y">>, <<"f", "i", "r", "s", "t">> }

\* the rule declared at position k moves to its own mailbox and marks read
ActionsOf(k) ==
    << [type |-> "move_message", mailbox |-> <<"L", Digits[k + 1]>>],
       [type |-> "mark_read"] >>

\* no mode key, or one
ModeChoices == {<<>>} \cup {<<m>> : m \in Modes}

\* the rule declared at position k
Rule(k, m, conds) ==
    IF m = <<>> THEN [conditions |-> conds, actions |-> ActionsOf(k)]
    ELSE [mode |-> m[1], conditions |-> conds, actions |-> ActionsOf(k)]

RECURSIVE Sum(_, _)
Sum(f, k) == IF k = 0 THEN 0 ELSE f[k] + Sum(f, k - 1)

\* the rule set whose k-th rule has mode modes[k] and the next lens[k]
\* conditions of flat
RuleSet(modes, lens, flat) ==
    [k \in 1..Len(modes) |->
        Rule(k, modes[k], SubSeq(flat, Sum(lens, k - 1) + 1, Sum(lens, k)))]

\* a day and more old, from a known sender; a second short of a day old
StoredRows ==
    { [message_id |-> M1, thread_id |-> <<"t">>, from_email |-> <<"a", "b">>,
       subject |-> <<"x">>, date_received |-> Now0 - SecondsPerDay - 3600,
       labels |-> json_dumps(<<INBOX, UNREAD>>), message |-> <<"h", "i">>],
      [message_id |-> M2, thread_id |-> <<>>, from_email |-> <<>>,
       subject |-> <<>>, date_received |-> Now0 - SecondsPerDay + 1,
       labels |-> json_dumps(<<INBOX>>), message |-> <<>>] }

\* the clock readings of one call: the clock may tick between two rules
NowSeqs(n) == {s \in [1..n -> {Now0, Now0 + 1}] : \A i \in 1..n : i < n => s[i] <= s[i+1]}

----------------------------------------------------------------------------
(* The rules file and RuleEngine._load_rules.  The text of a file is the    *)
(* sequence of its JSON tokens; a rule object is one token.                 *)

MaxTokens == 4

\* a well-formed rule that fires on every record; a rule without conditions;
\* a rule without actions; a rule whose condition has no value
RuleObjects ==
    [A |-> Rule(1, <<>>, <<>>),
     B |-> [actions |-> ActionsOf(2)],
     C |-> [conditions |-> <<>>],
     D |-> [mode |-> M_ANY,
            conditions |-> << [field |-> F_FROM, predicate |-> "contains"] >>,
            actions |-> ActionsOf(2)]]

Tokens == {"[", "]", ","} \cup DOMAIN RuleObjects

Missing == [exists |-> FALSE]
File(text) == [exists |-> TRUE, text |-> text]

RuleSources == {Missing} \cup {File(text) : text \in SeqsUpTo(Tokens, MaxTokens)}

JSONDecodeError == [ok |-> FALSE]
Parsed(value, rest) == [ok |-> TRUE, value |-> value, rest |-> rest]
JsonObject(obj) == [kind |-> "object", obj |-> obj]
JsonArray(items) == [kind |-> "array", items |-> items]

\* the JSON decoder: value ::= object | "[" "]" | "[" value {"," value} "]"
RECURSIVE parse_value(_)
RECURSIVE parse_items(_, _)
parse_value(text) ==
    IF text = <<>> THEN JSONDecodeError
    ELSE IF Head(text) \in DOMAIN RuleObjects
         THEN Parsed(JsonObject(RuleObjects[Head(text)]), Tail(text))
    ELSE IF Head(text) = "[" THEN
         IF Len(text) > 1 /\ text[2] = "]" THEN Parsed(JsonArray(<<>>), SubSeq(text, 3, Len(text)))
         ELSE parse_items(Tail(text), <<>>)
    ELSE JSONDecodeError

parse_items(text, items) ==
    LET v == parse_value(text) IN
        IF ~v.ok THEN JSONDecodeError
        ELSE IF v.rest = <<>> THEN JSONDecodeError
        ELSE IF Head(v.rest) = "]"
             THEN Parsed(JsonArray(Append(items, v.value)), Tail(v.rest))
        ELSE IF Head(v.rest) = ","
             THEN parse_items(Tail(v.rest), Append(items, v.value))
        ELSE JSONDecodeError

\* json.load(f): the document is one value and nothing after it
json_load(text) ==
    LET v == parse_value(text) IN
        IF v.ok /\ v.rest = <<>> THEN v ELSE JSONDecodeError

\* what iterating the loaded value yields: the items of a list, each a dict
\* or not; the keys of a dict, which are strings
walk(value) ==
    IF value.kind = "array"
    THEN [i \in 1..Len(value.items) |->
            IF value.items[i].kind = "object" THEN value.items[i].obj
            ELSE NotADict("list")]
    ELSE [i \in 1..Cardinality(DOMAIN value.obj) |-> NotADict("str")]

\* variant: only the missing file is caught
_load_rules_mutant(source) ==
    IF ~source.exists THEN [status |-> "ok", rules |-> <<>>]
    ELSE LET v == json_load(source.text) IN
         IF ~v.ok THEN [status |-> "JSONDecodeError", rules |-> <<>>]
         ELSE [status |-> "ok", rules |-> walk(v.value)]

\* open() raises FileNotFoundError and json.load raises JSONDecodeError: both
\* are caught; `if not rules` holds for the empty list
_load_rules(source) ==
    IF ~source.exists THEN [status |-> "ok", rules |-> <<>>]
    ELSE LET v == json_load(source.text) IN
         IF ~v.ok THEN [status |-> "ok", rules |-> <<>>]
         ELSE [status |-> "ok", rules |-> walk(v.value)]

----------------------------------------------------------------------------
(* The evaluation machine *)

\* at most MaxRules rules with at most MaxConds conditions in all
EvalStart ==
    /\ \E n \in 0..MaxRules :
         \E modes \in [1..n -> ModeChoices], lens \in [1..n -> 0..MaxConds] :
             /\ Sum(lens, n) <= MaxConds
             /\ \E flat \in [1..Sum(lens, n) -> Conditions] :
                    rules = RuleSet(modes, lens, flat)
    /\ ruleSource = None
    /\ engine = "built"
    /\ evalArg \in StoredRows
    /\ evalResult = None

EvalIdle ==
    /\ ruleSource = None
    /\ engine = "unbuilt"
    /\ rules = <<>>
    /\ evalArg = None
    /\ evalResult = None

Evaluate ==
    /\ engine = "built"
    /\ evalResult = None
    /\ \E nows \in NowSeqs(Len(rules)) :
        evalResult' = [nows |-> nows] @@ evaluate(evalArg, rules, nows)
    /\ UNCHANGED <<ruleSource, engine, rules, evalArg, applyVars, storeVars, predVars, clientVars, mainVars, fetchVars, authVars, twinVars>>

EvalNext == Evaluate

\* RuleEngine(rules_path): self.rules = self._load_rules(rules_path)
LoadStart ==
    /\ ruleSource \in RuleSources
    /\ engine = "unbuilt"
    /\ rules = None
    /\ evalArg \in StoredRows
    /\ evalResult = None

Construct ==
    /\ engine = "unbuilt"
    /\ LET r == _load_rules(ruleSource) IN
        /\ engine' = IF r.status = "ok" THEN "built" ELSE r.status
        /\ rules' = IF r.status = "ok" THEN r.rules ELSE rules
    /\ UNCHANGED <<ruleSource, evalArg, evalResult, applyVars, storeVars, predVars, clientVars, mainVars, fetchVars, authVars, twinVars>>

LoadNext == Construct \/ Evaluate

----------------------------------------------------------------------------
(* The action-application machine: apply_actions is invoked on the labels   *)
(* the provider currently holds, up to MaxPasses times                      *)

ApplyStart ==
    /\ msgLabels \in LabelLists
    /\ actionArg \in ActionLists
    /\ passes = <<>>
    /\ modifyLog = <<>>

ApplyIdle ==
    /\ msgLabels = <<>>
    /\ actionArg = <<>>
    /\ passes = <<>>
    /\ modifyLog = <<>>

\* apply_actions raises KeyError inside the loop: the sink is not reached
ApplyRaises ==
    /\ Len(passes) < MaxPasses
    /\ LET d == compute_delta(PyList(msgLabels), actionArg) IN
        /\ d.status # "ok"
        /\ passes' = Append(passes, [labels |-> msgLabels, status |-> d.status,
                                     add |-> d.add, remove |-> d.remove])
    /\ UNCHANGED <<msgLabels, actionArg, modifyLog, storeVars, evalVars, predVars, clientVars, mainVars, fetchVars, authVars, twinVars>>

\* both lists are empty: apply_actions returns without calling the sink
ApplySkips ==
    /\ Len(passes) < MaxPasses
    /\ LET d == compute_delta(PyList(msgLabels), actionArg) IN
        /\ d.status = "ok"
        /\ ~sink_wanted(d)
        /\ passes' = Append(passes, [labels |-> msgLabels, status |-> "ok",
                                     add |-> d.add, remove |-> d.remove])
    /\ UNCHANGED <<msgLabels, actionArg, modifyLog, storeVars, evalVars, predVars, clientVars, mainVars, fetchVars, authVars, twinVars>>

\* the sink is called; the provider applies the change or the call fails and
\* modify_email raises GmailAPIError
ApplyCalls ==
    /\ Len(passes) < MaxPasses
    /\ LET d == compute_delta(PyList(msgLabels), actionArg) IN
        /\ d.status = "ok"
        /\ sink_wanted(d)
        /\ modifyLog' = Append(modifyLog, [pass |-> Len(passes) + 1, msg_id |-> MSG_ID,
                                           add |-> d.add, remove |-> d.remove])
        /\ \E delivered \in BOOLEAN :
            /\ msgLabels' = IF delivered THEN modify_email(msgLabels, d.add, d.remove)
                            ELSE msgLabels
            /\ passes' = Append(passes,
                   [labels |-> msgLabels,
                    status |-> IF delivered THEN "ok" ELSE "GmailAPIError",
                    add |-> d.add, remove |-> d.remove])
    /\ UNCHANGED <<actionArg, storeVars, evalVars, predVars, clientVars, mainVars, fetchVars, authVars, twinVars>>

ApplyNext == ApplyRaises \/ ApplySkips \/ ApplyCalls

----------------------------------------------------------------------------
(* GmailClient: reading the mailbox.  The provider lists message ids page   *)
(* by page and returns one message per get; any of these calls can fail.    *)

MaxPages == 3

\* what messages().get() returns besides the labels; the body data stand for
\* the text they encode
RemoteMessages ==
    [id \in MsgIds |->
        IF id = M1
        THEN [threadId |-> <<"t">>,
              payload |->
                [headers |-> << [name |-> <<"F", "r", "o", "m">>, value |-> <<"a">>],
                                [name |-> <<"S", "u", "b", "j", "e", "c", "t">>,
                                 value |-> <<"x">>],
                                [name |-> <<"D", "a", "t", "e">>, value |-> Date1] >>,
                 body |-> [data |-> <<"h">>],
                 parts |-> << [body |-> [data |-> <<"i">>]] >>]]
        ELSE [snippet |-> <<>>]]

\* service.users().messages().get(userId='me', id=msg_id, format='full')
messages_get(labels, msg_id) ==
    LET static == RemoteMessages[msg_id]
        keys == DOMAIN static \cup {"id"}
                    \cup (IF labels[msg_id] # <<>> THEN {"labelIds"} ELSE {})
    IN  [k \in keys |->
            CASE k = "id" -> msg_id
              [] k = "labelIds" -> labels[msg_id]
              [] OTHER -> static[k]]

\* {h['name'].lower(): h['value'] for h in headers}.get(key, '')
header_get(headers, key) ==
    LET hits == {i \in 1..Len(headers) : Lower(headers[i].name) = key} IN
        IF hits = {} THEN <<>>
        ELSE headers[CHOOSE i \in hits : \A j \in hits : j <= i].value

\* the walk over the payload and its nested parts, in queue order
RECURSIVE message_parts(_)
message_parts(parts) ==
    IF parts = <<>> THEN <<>>
    ELSE LET part == Head(parts) IN
         (IF "body" \in DOMAIN part /\ "data" \in DOMAIN part.body THEN part.body.data
          ELSE <<>>)
         \o message_parts(Tail(parts)
                           \o (IF "parts" \in DOMAIN part THEN part.parts ELSE <<>>))

_get_message_content(message) ==
    IF "payload" \notin DOMAIN message THEN <<>>
    ELSE message_parts(<<message.payload>>)

\* the dict _get_email_details builds from the provider's message
email_details(msg_id, msg) ==
    LET whole == "payload" \in DOMAIN msg /\ "headers" \in DOMAIN msg.payload
        headers == IF whole THEN msg.payload.headers ELSE <<>>
    IN  [message_id |-> msg_id,
         thread_id |-> Get(msg, "threadId"),
         from |-> header_get(headers, <<"f", "r", "o", "m">>),
         subject |-> header_get(headers, <<"s", "u", "b", "j", "e", "c", "t">>),
         date_received |-> header_get(headers, <<"d", "a", "t", "e">>),
         labels |-> Get(msg, "labelIds"),
         message |-> IF whole THEN _get_message_content(msg) ELSE <<>>]

\* how a provider call ends
Outcomes == {"ok", "HttpError", "OSError"}

\* variant: only HttpError is turned into GmailAPIError
api_error_mutant(raised) ==
    CASE raised = "HttpError" -> "GmailAPIError"
      [] OTHER -> raised

\* except HttpError as e: raise GmailAPIError(...) from e
\* except Exception as e: raise GmailAPIError(...) from e
api_error(raised) ==
    CASE raised = "HttpError" -> "GmailAPIError"
      [] OTHER -> "GmailAPIError"

\* _get_email_details: the outcome of the get decides between the dict and
\* the exception; a call that raises returns nothing
_get_email_details(labels, msg_id, outcome) ==
    IF outcome = "ok"
    THEN [status |-> "ok", failed |-> FALSE,
          returned |-> email_details(msg_id, messages_get(labels, msg_id))]
    ELSE [status |-> api_error(outcome), failed |-> TRUE, returned |-> None]

\* the paging loop: page k is asked for, the loop leaves on a page without
\* messages or without nextPageToken; gives the ids listed and the number of
\* list calls made
RECURSIVE list_loop(_, _, _)
list_loop(pages, k, all_messages) ==
    LET messages == IF k <= Len(pages) THEN pages[k] ELSE <<>> IN
        IF messages = <<>> THEN [ids |-> all_messages, calls |-> k]
        ELSE IF k < Len(pages) THEN list_loop(pages, k + 1, all_messages \o messages)
        ELSE [ids |-> all_messages \o messages, calls |-> k]

\* fetch_inbox_emails when the provider call number fail.at, counting the
\* list calls and then the get calls, ends as fail.outcome and the others
\* succeed.  listed and got are the provider calls made.
\* variant: a failing get ends the loop and what was fetched is returned
fetch_inbox_emails_mutant(pages, labels, fail) ==
    LET l == list_loop(pages, 1, <<>>)
        n == Len(l.ids)
        details == [i \in 1..n |->
                      _get_email_details(labels, l.ids[i],
                          IF fail.at = l.calls + i THEN fail.outcome ELSE "ok")]
    IN  IF fail.outcome # "ok" /\ fail.at \in 1..l.calls
        THEN [status |-> api_error(fail.outcome), failed |-> TRUE, returned |-> None,
              listed |-> fail.at, got |-> <<>>]
        ELSE IF fail.outcome # "ok" /\ fail.at \in (l.calls + 1)..(l.calls + n)
        THEN [status |-> "ok", failed |-> TRUE,
              returned |-> [i \in 1..(fail.at - l.calls - 1) |-> details[i].returned],
              listed |-> l.calls, got |-> SubSeq(l.ids, 1, fail.at - l.calls)]
        ELSE [status |-> "ok", failed |-> FALSE,
              returned |-> [i \in 1..n |-> details[i].returned],
              listed |-> l.calls, got |-> l.ids]

fetch_inbox_emails(pages, labels, fail) ==
    LET l == list_loop(pages, 1, <<>>)
        n == Len(l.ids)
        details == [i \in 1..n |->
                      _get_email_details(labels, l.ids[i],
                          IF fail.at = l.calls + i THEN fail.outcome ELSE "ok")]
    IN  IF fail.outcome # "ok" /\ fail.at \in 1..l.calls
        THEN [status |-> api_error(fail.outcome), failed |-> TRUE, returned |-> None,
              listed |-> fail.at, got |-> <<>>]
        ELSE IF fail.outcome # "ok" /\ fail.at \in (l.calls + 1)..(l.calls + n)
        THEN \* the GmailAPIError of _get_email_details is caught by
             \* `except Exception` and raised again as GmailAPIError
             [status |-> api_error(details[fail.at - l.calls].status), failed |-> TRUE,
              returned |-> None,
              listed |-> l.calls, got |-> SubSeq(l.ids, 1, fail.at - l.calls)]
        ELSE [status |-> "ok", failed |-> FALSE,
              returned |-> [i \in 1..n |-> details[i].returned],
              listed |-> l.calls, got |-> l.ids]

----------------------------------------------------------------------------
(* The client machine *)

PageChoices == {<<>>, <<M1>>, <<M2>>, <<M1, M2>>}

\* the provider lists a message once
Pagings == {pages \in SeqsUpTo(PageChoices, MaxPages) : NoDup(Flatten(pages))}

RemoteLabels ==
    {[id \in MsgIds |-> IF id = M1 THEN l ELSE <<>>] :
        l \in {<<INBOX, UNREAD>>, <<INBOX>>, <<INBOX, L1_UNREAD>>}}

\* the provider call that fails, if any
Failures(n) == {[at |-> 0, outcome |-> "ok"]}
                   \cup [at : 1..n, outcome : Outcomes \ {"ok"}]

ClientStart ==
    /\ \E pages \in Pagings, labels \in RemoteLabels :
           remote = [pages |-> pages, labels |-> labels]
    /\ clientCall = None

ClientIdle ==
    /\ remote = None
    /\ clientCall = None

FetchInboxEmails ==
    /\ \E fail \in Failures(MaxPages + Cardinality(MsgIds)) :
           clientCall' = [op |-> "fetch_inbox_emails"]
                             @@ fetch_inbox_emails(remote.pages, remote.labels, fail)
    /\ UNCHANGED <<remote, applyVars, storeVars, evalVars, predVars, mainVars, fetchVars, authVars, twinVars>>

GetEmailDetails ==
    /\ \E msg_id \in MsgIds, outcome \in Outcomes :
           clientCall' = [op |-> "_get_email_details", msg_id |-> msg_id]
                             @@ _get_email_details(remote.labels, msg_id, outcome)
    /\ UNCHANGED <<remote, applyVars, storeVars, evalVars, predVars, mainVars, fetchVars, authVars, twinVars>>

\* modify_email: the provider changes the labels, or the call fails
ModifyEmail ==
    /\ \E msg_id \in MsgIds, outcome \in Outcomes,
          add \in {<<>>, <<ARCHIVE>>}, remove \in {<<>>, <<UNREAD>>} :
           /\ remote' = IF outcome = "ok"
                         THEN [remote EXCEPT !.labels[msg_id] = modify_email(@, add, remove)]
                         ELSE remote
           /\ clientCall' = [op |-> "modify_email", msg_id |-> msg_id,
                              add |-> add, remove |-> remove,
                              failed |-> outcome # "ok",
                              status |-> IF outcome = "ok" THEN "ok" ELSE api_error(outcome),
                              returned |-> None]
    /\ UNCHANGED <<applyVars, storeVars, evalVars, predVars, mainVars, fetchVars, authVars, twinVars>>

ClientNext == FetchInboxEmails \/ GetEmailDetails \/ ModifyEmail

----------------------------------------------------------------------------
(* fetch_inbox_emails step by step: one list call, one get call or the      *)
(* return per step.  The provider answers a list call from the page token   *)
(* it is given; page k of its listing is the answer to token k and to the   *)
(* first call, which carries no token.                                      *)

NoToken == 0

\* the answer to a list call: the keys messages and nextPageToken are absent
\* when there is nothing to give
Page(messages, next) ==
    (IF messages = <<>> THEN <<>> ELSE [messages |-> messages])
        @@ (IF next = NoToken THEN <<>> ELSE [nextPageToken |-> next])

\* page k names no next page, the page after it, or the first page again
NextChoices(n) ==
    {nexts \in [1..n -> 0..n] : \A k \in 1..n : nexts[k] \in {NoToken, 1, k + 1}}

Listings ==
    UNION { { [k \in 1..n |-> Page(msgs[k], nexts[k])] :
                 msgs \in {m \in [1..n -> PageChoices] : NoDup(Flatten(m))},
                 nexts \in NextChoices(n) } : n \in 0..MaxPages }

\* variant: the provider is asked for the first page whatever the token
messages_list_mutant(listing, page_token) ==
    IF listing = <<>> THEN <<>> ELSE listing[1]

\* service.users().messages().list(userId='me', q=query, pageToken=page_token)
messages_list(listing, page_token) ==
    IF listing = <<>> THEN <<>>
    ELSE IF page_token = NoToken THEN listing[1]
    ELSE listing[page_token]

\* response.get(key, default)
response_get(response, key, default) ==
    IF key \in DOMAIN response THEN response[key] ELSE default

\* a cyclic listing never gives a last page: the model stops asking then
MaxListCalls == MaxPages + 1

FetchStart ==
    /\ \E listing \in Listings :
           remote = [listing |-> listing,
                     labels |-> [id \in MsgIds |-> IF id = M1 THEN <<INBOX, UNREAD>> ELSE <<>>]]
    /\ clientCall = None
    /\ fetch = [pc |-> "paging", page_token |-> NoToken, all_messages |-> <<>>,
                emails |-> <<>>, asked |-> <<>>, status |-> "running", returned |-> None]

FetchIdle == fetch = None

\* one iteration of `while True`
ListPage ==
    /\ fetch.pc = "paging"
    /\ Len(fetch.asked) < MaxListCalls
    /\ \E outcome \in Outcomes :
        IF outcome # "ok"
        THEN fetch' = [fetch EXCEPT !.pc = "raised", !.status = api_error(outcome)]
        ELSE LET response == messages_list(remote.listing, fetch.page_token)
                 messages == response_get(response, "messages", <<>>)
                 page_token == response_get(response, "nextPageToken", NoToken)
             IN  fetch' =
                    IF messages = <<>>
                    THEN [fetch EXCEPT !.pc = "details",
                                       !.asked = Append(@, fetch.page_token)]
                    ELSE [fetch EXCEPT !.pc = IF page_token = NoToken THEN "details"
                                              ELSE "paging",
                                       !.all_messages = @ \o messages,
                                       !.page_token = page_token,
                                       !.asked = Append(@, fetch.page_token)]
    /\ UNCHANGED <<applyVars, storeVars, evalVars, predVars, clientVars, mainVars, authVars, twinVars>>

\* one iteration of `for msg in all_messages`
GetDetails ==
    /\ fetch.pc = "details"
    /\ Len(fetch.emails) < Len(fetch.all_messages)
    /\ \E outcome \in Outcomes :
        LET msg_id == fetch.all_messages[Len(fetch.emails) + 1]
            email == _get_email_details(remote.labels, msg_id, outcome)
        IN  fetch' = IF email.status = "ok"
                     THEN [fetch EXCEPT !.emails = Append(@, email.returned)]
                     ELSE [fetch EXCEPT !.pc = "raised", !.status = api_error(email.status)]
    /\ UNCHANGED <<applyVars, storeVars, evalVars, predVars, clientVars, mainVars, authVars, twinVars>>

\* return emails
FetchReturns ==
    /\ fetch.pc = "details"
    /\ Len(fetch.emails) = Len(fetch.all_messages)
    /\ fetch' = [fetch EXCEPT !.pc = "returned", !.status = "ok", !.returned = fetch.emails]
    /\ UNCHANGED <<applyVars, storeVars, evalVars, predVars, clientVars, mainVars, authVars, twinVars>>

FetchNext == ListPage \/ GetDetails \/ FetchReturns

----------------------------------------------------------------------------
(* GmailClient._authenticate, one library or file-system call per step.     *)
(* Credentials are what the code reads of them: valid, expired and          *)
(* refresh_token, and where they come from.                                 *)

Creds(origin, valid, expired, refresh_token) ==
    [origin |-> origin, valid |-> valid, expired |-> expired,
     refresh_token |-> refresh_token]

\* Credentials.valid is `token is not None and not expired`
TokenCreds ==
    { Creds("file", v, e, r) : v \in BOOLEAN, e \in BOOLEAN, r \in BOOLEAN } \ 
    { Creds("file", TRUE, TRUE, r) : r \in BOOLEAN }

\* the token file: absent, unreadable as credentials, or holding credentials
Absent == [absent |-> TRUE]
Unreadable == [unreadable |-> TRUE]
TokenFiles == {Absent, Unreadable} \cup { [creds |-> c] : c \in TokenCreds }

\* creds.refresh(Request()) that succeeds
refreshed(creds) == [creds EXCEPT !.origin = "refresh", !.valid = TRUE, !.expired = FALSE]

\* what flow.run_local_server(port=0) returns
FlowCreds == Creds("flow", TRUE, FALSE, TRUE)

\* `not creds or not creds.valid`
needs_auth(creds) == IF creds = None THEN TRUE ELSE ~creds.valid

\* variant: every credential that is not valid is refreshed
refreshable_mutant(creds) == creds # None

\* `creds and creds.expired and creds.refresh_token`
refreshable(creds) == creds # None /\ creds.expired /\ creds.refresh_token

\* variant: the flow is run whatever credentials are held
flow_needed_mutant(creds) == TRUE

\* `not creds`, line 69
flow_needed(creds) == creds = None

Call(op, outcome) == [op |-> op, outcome |-> outcome]

AuthStart ==
    /\ \E token \in TokenFiles, secrets \in BOOLEAN :
           auth = [pc |-> "start", token |-> token, secrets |-> secrets, creds |-> None,
                   loaded |-> None, calls |-> <<>>, status |-> "running",
                   service |-> None]

AuthIdle == auth = None

\* lines 41-49: the token file, if there is one, is read
AuthLoad ==
    /\ auth.pc = "start"
    /\ \/ /\ auth.token = Absent
          /\ auth' = [auth EXCEPT !.pc = "loaded"]
       \/ /\ auth.token # Absent
          /\ \E outcome \in Outcomes :
               LET ok == outcome = "ok" /\ auth.token # Unreadable
                   creds == IF ok THEN auth.token.creds ELSE None
               IN  auth' = [auth EXCEPT
                               !.pc = "loaded", !.creds = creds, !.loaded = creds,
                               !.calls = Append(@, Call("from_authorized_user_file",
                                   IF ok THEN "ok"
                                   ELSE IF outcome = "ok" THEN "ValueError" ELSE outcome))]
    /\ UNCHANGED <<applyVars, storeVars, evalVars, predVars, clientVars, mainVars, fetchVars, twinVars>>

\* lines 59-68: the refresh and, when it fails, the removal of the token file
AuthRefresh ==
    /\ auth.pc = "loaded"
    /\ needs_auth(auth.creds) /\ refreshable(auth.creds)
    /\ \E outcome \in Outcomes, removal \in {"ok", "OSError"} :
        auth' =
            IF outcome = "ok"
            THEN [auth EXCEPT !.pc = "refreshed", !.creds = refreshed(@),
                              !.calls = Append(@, Call("refresh", "ok"))]
            ELSE IF removal = "ok"
            THEN [auth EXCEPT !.pc = "refreshed", !.creds = None, !.token = Absent,
                              !.calls = @ \o <<Call("refresh", outcome), Call("remove", "ok")>>]
            ELSE [auth EXCEPT !.pc = "raised", !.status = removal,
                              !.calls = @ \o <<Call("refresh", outcome),
                                               Call("remove", removal)>>]
    /\ UNCHANGED <<applyVars, storeVars, evalVars, predVars, clientVars, mainVars, fetchVars, twinVars>>

\* the block of line 58 is entered and no refresh is tried
AuthNoRefresh ==
    /\ auth.pc = "loaded"
    /\ needs_auth(auth.creds) /\ ~refreshable(auth.creds)
    /\ auth' = [auth EXCEPT !.pc = "refreshed"]
    /\ UNCHANGED <<applyVars, storeVars, evalVars, predVars, clientVars, mainVars, fetchVars, twinVars>>

\* lines 69-77: the interactive flow
AuthFlow ==
    /\ auth.pc = "refreshed"
    /\ flow_needed(auth.creds)
    /\ \E outcome \in Outcomes :
        LET raised == IF ~auth.secrets THEN "FileNotFoundError" ELSE outcome IN
        auth' =
            IF raised = "ok"
            THEN [auth EXCEPT !.pc = "authorized", !.creds = FlowCreds,
                              !.calls = Append(@, Call("run_local_server", "ok"))]
            ELSE [auth EXCEPT !.pc = "raised", !.status = "GmailAPIError",
                              !.calls = Append(@,
                                  Call(IF ~auth.secrets THEN "from_client_secrets_file"
                                       ELSE "run_local_server", raised))]
    /\ UNCHANGED <<applyVars, storeVars, evalVars, predVars, clientVars, mainVars, fetchVars, twinVars>>

\* line 69 with credentials in hand: no flow
AuthNoFlow ==
    /\ auth.pc = "refreshed"
    /\ ~flow_needed(auth.creds)
    /\ auth' = [auth EXCEPT !.pc = "authorized"]
    /\ UNCHANGED <<applyVars, storeVars, evalVars, predVars, clientVars, mainVars, fetchVars, twinVars>>

\* lines 79-85: the credentials are written to the token file; a failure is
\* logged and the file is as it was
AuthSave ==
    /\ auth.pc = "authorized"
    /\ \E outcome \in {"ok", "OSError"} :
        auth' = [auth EXCEPT !.pc = "saved",
                             !.token = IF outcome = "ok" THEN [creds |-> auth.creds] ELSE @,
                             !.calls = Append(@, [op |-> "write", outcome |-> outcome,
                                                  creds |-> auth.creds])]
    /\ UNCHANGED <<applyVars, storeVars, evalVars, predVars, clientVars, mainVars, fetchVars, twinVars>>

\* lines 87-92: the service is built with the credentials held
AuthBuild ==
    /\ \/ auth.pc = "loaded" /\ ~needs_auth(auth.creds)
       \/ auth.pc = "saved"
    /\ \E outcome \in Outcomes :
        auth' =
            IF outcome = "ok"
            THEN [auth EXCEPT !.pc = "returned", !.status = "ok",
                              !.service = [credentials |-> auth.creds],
                              !.calls = Append(@, Call("build", "ok"))]
            ELSE [auth EXCEPT !.pc = "raised", !.status = "GmailAPIError",
                              !.calls = Append(@, Call("build", outcome))]
    /\ UNCHANGED <<applyVars, storeVars, evalVars, predVars, clientVars, mainVars, fetchVars, twinVars>>

AuthNext ==
    \/ AuthLoad \/ AuthRefresh \/ AuthNoRefresh \/ AuthFlow \/ AuthNoFlow
    \/ AuthSave \/ AuthBuild

----------------------------------------------------------------------------
(* The predicate machine: each predicate of the table is called on one pair *)
(* of a field value and a target                                            *)

MaxStr == 3

Alphabet == {"a", "b"}

Strings == SeqsUpTo(Alphabet, MaxStr)

MaxDays == 2

\* a rule file writes the number of days as a JSON number or as a string
DaysTargets(n) == {PyInt(n), PyStr(<<Digits[n + 1]>>)}

\* ages around each whole number of days, one second apart; a message dated
\* after the clock reading has a negative age
Ages == { n * SecondsPerDay + d : n \in 0..MaxDays, d \in {-1, 0, 1} }

PredStart ==
    /\ \/ \E value \in Strings, target \in Strings :
              predArgs = [value |-> PyStr(value), target |-> PyStr(target)]
       \/ \E age \in Ages, n \in 0..MaxDays : \E days \in DaysTargets(n) :
              predArgs = [value |-> Timedelta(age), target |-> days]
    /\ predResult = [name \in PredicateNames |-> "uncalled"]

PredIdle ==
    /\ predArgs = None
    /\ predResult = [name \in PredicateNames |-> "uncalled"]

\* predicate_fn = self.PREDICATES[predicate_name]; predicate_fn(field_value, target)
CallPredicate ==
    /\ \E name \in PredicateNames :
        /\ predResult[name] = "uncalled"
        /\ predResult' = [predResult EXCEPT
                             ![name] = PREDICATES(name, predArgs.value, predArgs.target)]
    /\ UNCHANGED <<predArgs, applyVars, storeVars, evalVars, clientVars, mainVars, fetchVars, authVars, twinVars>>

PredNext == CallPredicate

----------------------------------------------------------------------------
(* main: fetch, save, then evaluate and apply record by record.  The steps  *)
(* are the calls main makes; a call that raises ends the run.               *)

\* the columns of a row of get_all_emails, by position
Columns == <<"message_id", "thread_id", "from_email", "subject", "date_received",
             "labels", "message">>

\* email[i] on a row
Column(row, i) == row[Columns[i + 1]]

\* variant: the save is skipped
storage_truthy_mutant == FALSE

\* `if storage:` an EmailStorage object is true
storage_truthy == TRUE

\* variant: apply_actions is called whatever evaluate returned
apply_wanted_mutant(actions) == TRUE

\* `if actions:`
apply_wanted(actions) == actions # <<>>

\* rules.json of the run: a rule on the sender that marks read, the rule that
\* fires on every record, a rule without conditions, a move without mailbox
SenderRule ==
    [mode |-> <<"A", "N", "Y">>,
     conditions |-> << [field |-> <<"F", "r", "o", "m">>, predicate |-> "contains",
                        value |-> PyStr(<<"a">>)] >>,
     actions |-> << [type |-> "mark_read"] >>]

NoMailboxRule == [conditions |-> <<>>, actions |-> << [type |-> "move_message"] >>]

MainRuleSets ==
    { <<>>, <<SenderRule>>, <<RuleObjects.A>>, <<SenderRule, RuleObjects.A>>,
      <<RuleObjects.B>>, <<NoMailboxRule>> }

\* what earlier runs left in email.db
PriorBatches == { <<>>, <<Email(M2, FullPayload, Date2, <<INBOX>>)>> }

MainStart ==
    /\ \E pages \in Pagings, labels \in RemoteLabels :
           remote = [pages |-> pages, labels |-> labels]
    /\ clientCall = None
    /\ \E prior \in PriorBatches :
           /\ rows = save_loop(<<>>, prior, ClockStart)
           /\ firstWrite = NoteFirst([id \in MsgIds |-> None], prior, ClockStart)
           /\ lastWrite = NoteLast([id \in MsgIds |-> None], prior)
    /\ clock = ClockStart
    /\ lastSave = [op |-> "_init_db"]
    /\ ruleSource = None
    /\ engine = "built"
    /\ rules \in MainRuleSets
    /\ evalArg = None
    /\ evalResult = None
    /\ run = [pc |-> "constructed", fetched |-> <<>>, snapshot |-> <<>>, cursor |-> 0,
              pending |-> <<>>, trace |-> <<>>, nth |-> "first", first |-> <<>>]

MainIdle == run = None

\* emails = client.fetch_inbox_emails(look_back=look_back_days)
MainFetch ==
    /\ run.pc = "constructed"
    /\ \E fail \in Failures(MaxPages + Cardinality(MsgIds)) :
        LET r == fetch_inbox_emails(remote.pages, remote.labels, fail) IN
            run' = [run EXCEPT
                      !.pc = IF r.status = "ok" THEN "fetched" ELSE "aborted",
                      !.fetched = IF r.status = "ok" THEN r.returned ELSE <<>>,
                      !.trace = Append(@, [op |-> "fetch_inbox_emails",
                                           status |-> r.status, returned |-> r.returned])]
    /\ UNCHANGED <<applyVars, storeVars, evalVars, predVars, clientVars, fetchVars, authVars, twinVars>>

\* if storage: storage.save_emails(emails)
MainPersist ==
    /\ run.pc = "fetched"
    /\ IF storage_truthy
       THEN /\ save_emails_effect(run.fetched)
            /\ run' = [run EXCEPT
                         !.pc = "persisted",
                         !.trace = Append(@, [op |-> "save_emails", emails |-> run.fetched])]
       ELSE /\ run' = [run EXCEPT !.pc = "persisted"]
            /\ UNCHANGED <<rows, lastSave, firstWrite, lastWrite>>
    /\ UNCHANGED <<clock, applyVars, evalVars, predVars, clientVars, fetchVars, authVars, twinVars>>

\* for email in storage.get_all_emails(): the list is read once
MainGetAll ==
    /\ run.pc = "persisted"
    /\ run' = [run EXCEPT
                 !.pc = "loop",
                 !.snapshot = get_all_emails,
                 !.cursor = 1,
                 !.trace = Append(@, [op |-> "get_all_emails", returned |-> get_all_emails])]
    /\ UNCHANGED <<applyVars, storeVars, evalVars, predVars, clientVars, fetchVars, authVars, twinVars>>

\* actions = engine.evaluate(email), and `if actions:` when the list is empty
MainEvaluate ==
    /\ run.pc = "loop"
    /\ run.cursor <= Len(run.snapshot)
    /\ \E nows \in NowSeqs(Len(rules)) :
        LET email == run.snapshot[run.cursor]
            r == evaluate(email, rules, nows)
            event == [op |-> "evaluate", email |-> email, status |-> r.status,
                      returned |-> IF r.status = "ok" THEN r.actions ELSE None]
        IN  run' = [run EXCEPT
                      !.trace = Append(@, event),
                      !.pc = IF r.status # "ok" THEN "aborted"
                             ELSE IF apply_wanted(r.actions) THEN "apply" ELSE "loop",
                      !.pending = IF r.status = "ok" THEN r.actions ELSE <<>>,
                      !.cursor = IF r.status = "ok" /\ ~apply_wanted(r.actions)
                                 THEN @ + 1 ELSE @]
    /\ UNCHANGED <<applyVars, storeVars, evalVars, predVars, clientVars, fetchVars, authVars, twinVars>>

\* engine.apply_actions(client, email[0], email[5], actions)
ApplyEvent(email, status) ==
    [op |-> "apply_actions", msg_id |-> Column(email, 0), labels |-> Column(email, 5),
     actions |-> run.pending, status |-> status]

\* apply_actions raises KeyError in its loop
MainApplyRaises ==
    /\ run.pc = "apply"
    /\ LET email == run.snapshot[run.cursor]
           d == compute_delta(PyStr(Column(email, 5)), run.pending)
       IN  /\ d.status # "ok"
           /\ run' = [run EXCEPT !.pc = "aborted",
                                  !.trace = Append(@, ApplyEvent(email, d.status))]
    /\ UNCHANGED <<applyVars, storeVars, evalVars, predVars, clientVars, fetchVars, authVars, twinVars>>

\* apply_actions finds nothing to change
MainApplySkips ==
    /\ run.pc = "apply"
    /\ LET email == run.snapshot[run.cursor]
           d == compute_delta(PyStr(Column(email, 5)), run.pending)
       IN  /\ d.status = "ok"
           /\ ~sink_wanted(d)
           /\ run' = [run EXCEPT !.pc = "loop", !.cursor = @ + 1, !.pending = <<>>,
                                  !.trace = Append(@, ApplyEvent(email, "ok"))]
    /\ UNCHANGED <<applyVars, storeVars, evalVars, predVars, clientVars, fetchVars, authVars, twinVars>>

\* apply_actions calls client.modify_email, which succeeds or raises
MainApplyCalls ==
    /\ run.pc = "apply"
    /\ LET email == run.snapshot[run.cursor]
           d == compute_delta(PyStr(Column(email, 5)), run.pending)
       IN  /\ d.status = "ok"
           /\ sink_wanted(d)
           /\ \E outcome \in Outcomes :
               LET status == IF outcome = "ok" THEN "ok" ELSE api_error(outcome) IN
                   /\ remote' = IF outcome = "ok"
                                 THEN [remote EXCEPT !.labels[Column(email, 0)] =
                                                        modify_email(@, d.add, d.remove)]
                                 ELSE remote
                   /\ run' = [run EXCEPT
                                !.pc = IF outcome = "ok" THEN "loop" ELSE "aborted",
                                !.cursor = IF outcome = "ok" THEN @ + 1 ELSE @,
                                !.pending = <<>>,
                                !.trace = @ \o << ApplyEvent(email, status),
                                                  [op |-> "modify_email",
                                                   msg_id |-> Column(email, 0),
                                                   add |-> d.add, remove |-> d.remove,
                                                   status |-> status] >>]
    /\ UNCHANGED <<clientCall, applyVars, storeVars, evalVars, predVars, fetchVars, authVars, twinVars>>

\* the loop has gone through the list
MainReturns ==
    /\ run.pc = "loop"
    /\ run.cursor > Len(run.snapshot)
    /\ run' = [run EXCEPT !.pc = "done"]
    /\ UNCHANGED <<applyVars, storeVars, evalVars, predVars, clientVars, fetchVars, authVars, twinVars>>

\* what the provider lists for a later run: the same pages, or nothing once
\* the look-back window has moved past the messages
LaterListings(pages) == {pages, <<>>}

\* main is run again after a run that returned: email.db, the rules file and
\* the provider's labels are as the first run left them
MainAgain ==
    /\ run.pc = "done"
    /\ run.nth = "first"
    /\ \E pages \in LaterListings(remote.pages) :
           remote' = [remote EXCEPT !.pages = pages]
    /\ run' = [pc |-> "constructed", fetched |-> <<>>, snapshot |-> <<>>, cursor |-> 0,
               pending |-> <<>>, trace |-> <<>>, nth |-> "second", first |-> run.trace]
    /\ UNCHANGED <<clientCall, applyVars, storeVars, evalVars, predVars, fetchVars, authVars, twinVars>>

MainNext ==
    \/ MainAgain
    \/ MainFetch \/ MainPersist \/ MainGetAll \/ MainEvaluate
    \/ MainApplyRaises \/ MainApplySkips \/ MainApplyCalls \/ MainReturns

----------------------------------------------------------------------------
(* Specifications: each machine runs with the others at rest *)

ApplyInit == ApplyStart /\ StoreIdle /\ EvalIdle /\ PredIdle /\ ClientIdle /\ MainIdle /\ FetchIdle /\ AuthIdle /\ TwinIdle

SpecApply == ApplyInit /\ [][ApplyNext]_vars

StoreInit == StoreStart /\ ApplyIdle /\ EvalIdle /\ PredIdle /\ ClientIdle /\ MainIdle /\ FetchIdle /\ AuthIdle /\ TwinIdle

SpecStore == StoreInit /\ [][StoreNext]_vars

EvalInit == EvalStart /\ ApplyIdle /\ StoreIdle /\ PredIdle /\ ClientIdle /\ MainIdle /\ FetchIdle /\ AuthIdle /\ TwinIdle

SpecEval == EvalInit /\ [][EvalNext]_vars

LoadInit == LoadStart /\ ApplyIdle /\ StoreIdle /\ PredIdle /\ ClientIdle /\ MainIdle /\ FetchIdle /\ AuthIdle /\ TwinIdle

SpecLoad == LoadInit /\ [][LoadNext]_vars

PredInit == PredStart /\ ApplyIdle /\ StoreIdle /\ EvalIdle /\ ClientIdle /\ MainIdle /\ FetchIdle /\ AuthIdle /\ TwinIdle

ClientInit == ClientStart /\ ApplyIdle /\ StoreIdle /\ EvalIdle /\ PredIdle /\ MainIdle /\ FetchIdle /\ AuthIdle /\ TwinIdle

SpecClient == ClientInit /\ [][ClientNext]_vars

MainInit == MainStart /\ ApplyIdle /\ PredIdle /\ FetchIdle /\ AuthIdle /\ TwinIdle

SpecMain == MainInit /\ [][MainNext]_vars

FetchInit ==
    FetchStart /\ ApplyIdle /\ StoreIdle /\ EvalIdle /\ PredIdle /\ MainIdle /\ AuthIdle
        /\ TwinIdle

AuthInit ==
    /\ AuthStart /\ ApplyIdle /\ StoreIdle /\ EvalIdle /\ PredIdle /\ ClientIdle
    /\ MainIdle /\ FetchIdle /\ TwinIdle

TwinInit ==
    /\ TwinStart /\ ApplyIdle /\ StoreIdle /\ EvalIdle /\ PredIdle /\ ClientIdle
    /\ MainIdle /\ FetchIdle /\ AuthIdle

SpecTwin == TwinInit /\ [][TwinNext]_vars

SpecAuth == AuthInit /\ [][AuthNext]_vars

SpecFetch == FetchInit /\ [][FetchNext]_vars

\* the call is one thread of control: a step that can be taken is taken
FairSpecFetch == SpecFetch /\ WF_vars(FetchNext)

SpecPredicates == PredInit /\ [][PredNext]_vars

----------------------------------------------------------------------------
(* Properties of rule evaluation *)

Returned == evalResult # None /\ evalResult.status = "ok"

KnownCondition(c) == Lower(c.field) \in FieldNames /\ c.predicate \in PredicateNames

\* the condition names a known field and a known predicate and its predicate
\* is true of the field's value
HoldsOn(c, msg, now) ==
    /\ KnownCondition(c)
    /\ PREDICATES(c.predicate, field_value(msg, Lower(c.field), now), c.value) = "True"

IsAllRule(rule) == "mode" \notin DOMAIN rule \/ Lower(rule.mode) = M_ALL
IsAnyRule(rule) == "mode" \in DOMAIN rule /\ Lower(rule.mode) = M_ANY

\* C1: when evaluate returns, a rule of mode all, or of no mode, has fired
\* exactly if every one of its conditions names a known field and a known
\* predicate and holds on the record.
C1_AllModeFiresIffEveryConditionHolds ==
    Returned =>
        \A k \in 1..Len(rules) :
            IsAllRule(rules[k]) =>
                (evalResult.fired[k] <=>
                    \A i \in 1..Len(rules[k].conditions) :
                        HoldsOn(rules[k].conditions[i], evalArg, evalResult.nows[k]))

\* a rule without conditions fired, and a rule whose first condition holds
\* and whose second names an unknown field or predicate did not
C1_Witness ==
    /\ Returned
    /\ \E k \in 1..Len(rules) :
           IsAllRule(rules[k]) /\ rules[k].conditions = <<>> /\ evalResult.fired[k]
    /\ \E k \in 1..Len(rules) :
           /\ IsAllRule(rules[k])
           /\ Len(rules[k].conditions) = 2
           /\ HoldsOn(rules[k].conditions[1], evalArg, evalResult.nows[k])
           /\ ~KnownCondition(rules[k].conditions[2])
           /\ ~evalResult.fired[k]

\* C2: when evaluate returns, a rule of mode any has fired exactly if one of
\* its conditions names a known field and a known predicate and holds on the
\* record; so an unknown condition neither fires it nor hides a later one,
\* and a rule without conditions has not fired.
C2_AnyModeFiresIffSomeConditionHolds ==
    Returned =>
        \A k \in 1..Len(rules) :
            IsAnyRule(rules[k]) =>
                (evalResult.fired[k] <=>
                    \E i \in 1..Len(rules[k].conditions) :
                        HoldsOn(rules[k].conditions[i], evalArg, evalResult.nows[k]))

\* a rule of mode any fired on the condition after an unknown one, and a rule
\* of mode any without conditions did not fire
C2_Witness ==
    /\ Returned
    /\ \E k \in 1..Len(rules) :
           /\ IsAnyRule(rules[k])
           /\ Len(rules[k].conditions) = 2
           /\ ~KnownCondition(rules[k].conditions[1])
           /\ HoldsOn(rules[k].conditions[2], evalArg, evalResult.nows[k])
           /\ evalResult.fired[k]
    /\ \E k \in 1..Len(rules) :
           IsAnyRule(rules[k]) /\ rules[k].conditions = <<>> /\ ~evalResult.fired[k]

\* C3: the list evaluate returns is the action lists of the rules that fired,
\* one after the other in rule order, each in its own order and in full.
C3_ActionsConcatenatedInRuleOrder ==
    Returned =>
        /\ evalResult.actions =
             Flatten([k \in 1..Len(rules) |->
                        IF evalResult.fired[k] THEN rules[k].actions ELSE <<>>])
        /\ Len(evalResult.actions) =
             Sum([k \in 1..Len(rules) |->
                    IF evalResult.fired[k] THEN Len(rules[k].actions) ELSE 0], Len(rules))

\* two rules fired: the mark_read both carry is in the list twice
C3_Witness ==
    /\ Returned
    /\ Len(rules) = 2
    /\ evalResult.fired = <<TRUE, TRUE>>
    /\ Len(evalResult.actions) = 4
    /\ evalResult.actions[2] = evalResult.actions[4]
    /\ evalResult.actions[1] # evalResult.actions[3]

----------------------------------------------------------------------------
(* Properties of action application *)

IsMove(a) == a.type = "move_message"
IsMarkRead(a) == a.type = "mark_read"
IsMarkUnread(a) == a.type = "mark_unread"

\* the invocation got through its loop: it resolved every action
Resolved(p) == p.status # "KeyError"

EmptyDelta(p) == p.add = <<>> /\ p.remove = <<>>

\* what one action contributes, decided against the labels as passed in
AddContribution(a, labels) ==
    IF IsMove(a) /\ a.mailbox \notin Range(labels) THEN <<a.mailbox>>
    ELSE IF IsMarkUnread(a) /\ UNREAD \notin Range(labels) THEN <<UNREAD>>
    ELSE <<>>

RemoveContribution(a, labels) ==
    IF IsMarkRead(a) /\ UNREAD \in Range(labels) THEN <<UNREAD>> ELSE <<>>

\* C4: in every invocation that resolves its whole action list, add is what
\* the move_message and mark_unread actions contribute and remove is what the
\* mark_read actions contribute, action by action in list order, each action
\* decided against the labels passed in and not against the lists built so far.
C4_PerActionPolicy ==
    \A i \in 1..Len(passes) :
        Resolved(passes[i]) =>
            /\ passes[i].add =
                 Flatten([k \in 1..Len(actionArg) |->
                            AddContribution(actionArg[k], passes[i].labels)])
            /\ passes[i].remove =
                 Flatten([k \in 1..Len(actionArg) |->
                            RemoveContribution(actionArg[k], passes[i].labels)])

\* a resolved invocation in which a repeated move_message contributed twice:
\* the second decision ignored the first one's contribution
C4_Witness ==
    \E i \in 1..Len(passes) :
        /\ Resolved(passes[i])
        /\ ~NoDup(passes[i].add)
        /\ passes[i].remove # <<>>

\* C5: no invocation puts the same label in add and in remove.
C5_AddRemoveDisjoint ==
    \A i \in 1..Len(passes) : Range(passes[i].add) \cap Range(passes[i].remove) = {}

\* mark_read, mark_unread and a move to UNREAD in one list, resolved against
\* labels that hold UNREAD (a removal) and against labels that do not (an add)
C5_Witness ==
    /\ \E k \in 1..Len(actionArg) : IsMarkRead(actionArg[k])
    /\ \E k \in 1..Len(actionArg) : IsMarkUnread(actionArg[k])
    /\ \E k \in 1..Len(actionArg) :
           IsMove(actionArg[k]) /\ "mailbox" \in DOMAIN actionArg[k]
                                /\ actionArg[k].mailbox = UNREAD
    /\ \E i \in 1..Len(passes) : UNREAD \in Range(passes[i].remove)
    /\ \E i \in 1..Len(passes) : UNREAD \in Range(passes[i].add)

\* C6: every label of add is absent from the labels passed in and every label
\* of remove is present in them.
C6_NoNoOpMutation ==
    \A i \in 1..Len(passes) :
        /\ \A l \in Range(passes[i].add) : l \notin Range(passes[i].labels)
        /\ \A l \in Range(passes[i].remove) : l \in Range(passes[i].labels)

\* a move to a label the message already has was left out of a delta that
\* carries another change
C6_Witness ==
    \E i \in 1..Len(passes) :
        /\ Resolved(passes[i])
        /\ \E k \in 1..Len(actionArg) :
               /\ IsMove(actionArg[k])
               /\ actionArg[k].mailbox \in Range(passes[i].labels)
               /\ actionArg[k].mailbox \notin Range(passes[i].add)
        /\ passes[i].add # <<>>

\* the list asks for both directions of the UNREAD flag
Conflicting(actions) ==
    /\ \E k \in 1..Len(actions) : IsMarkRead(actions[k])
    /\ \E k \in 1..Len(actions) :
           \/ IsMarkUnread(actions[k])
           \/ /\ IsMove(actions[k])
              /\ "mailbox" \in DOMAIN actions[k]
              /\ actions[k].mailbox = UNREAD

\* C7 as stated: an invocation that follows one whose delta was applied has an
\* empty delta.
C7_Idempotent ==
    \A i \in 2..Len(passes) : passes[i-1].status = "ok" => EmptyDelta(passes[i])

\* C7 amended: that holds exactly for the lists that do not ask for both
\* directions of UNREAD; a list that does gets a non-empty delta every time.
C7_IdempotentUnlessConflicting ==
    \A i \in 2..Len(passes) :
        passes[i-1].status = "ok" => (EmptyDelta(passes[i]) <=> ~Conflicting(actionArg))

\* a first invocation changed the message and the second found nothing to do
C7_Witness ==
    /\ Len(passes) >= 2
    /\ passes[1].status = "ok"
    /\ passes[1].add # <<>>
    /\ passes[1].remove # <<>>
    /\ EmptyDelta(passes[2])

SinkCalls(i) == {k \in 1..Len(modifyLog) : modifyLog[k].pass = i}

\* C8: an invocation calls the sink at most once; one that resolved its list
\* calls it exactly when add or remove is non-empty, with these two lists; one
\* that raised in the loop does not call it.
C8_SinkCalledIffDelta ==
    \A i \in 1..Len(passes) :
        /\ Cardinality(SinkCalls(i)) <= 1
        /\ Resolved(passes[i]) => (SinkCalls(i) # {} <=> ~EmptyDelta(passes[i]))
        /\ ~Resolved(passes[i]) => SinkCalls(i) = {}
        /\ \A k \in SinkCalls(i) :
               modifyLog[k].add = passes[i].add /\ modifyLog[k].remove = passes[i].remove

\* mark_read on a message without UNREAD: no call
C8_Witness ==
    \E i \in 1..Len(passes) :
        /\ Resolved(passes[i])
        /\ \E k \in 1..Len(actionArg) : IsMarkRead(actionArg[k])
        /\ UNREAD \notin Range(passes[i].labels)
        /\ EmptyDelta(passes[i])
        /\ SinkCalls(i) = {}
        /\ modifyLog # <<>>

LacksMailbox(a) == IsMove(a) /\ "mailbox" \notin DOMAIN a

\* C14 as stated: an invocation whose list holds a move_message without
\* mailbox does not raise; its delta is what the other actions of the list
\* contribute, and the sink is called with it when it is not empty.
C14_MissingMailboxSkipped ==
    \A i \in 1..Len(passes) :
        LET others == SelectSeq(actionArg, LAMBDA a : ~LacksMailbox(a)) IN
            others # actionArg =>
                /\ Resolved(passes[i])
                /\ passes[i].add =
                     Flatten([k \in 1..Len(others) |->
                                AddContribution(others[k], passes[i].labels)])
                /\ passes[i].remove =
                     Flatten([k \in 1..Len(others) |->
                                RemoveContribution(others[k], passes[i].labels)])
                /\ SinkCalls(i) # {} <=> ~EmptyDelta(passes[i])

----------------------------------------------------------------------------
(* Properties of the store *)

Ingested == {id \in MsgIds : firstWrite[id] # None}

\* C9: every stored row carries the thread_id, from, subject, received_at and
\* body written by the first upsert of its message_id, and the labels of the
\* latest upsert of that message_id.
C9_FirstWriteWinsLabelsLast ==
    \A i \in 1..Len(rows) :
        LET r == rows[i]
            first == firstWrite[r.message_id]
            last == lastWrite[r.message_id]
        IN  /\ first # None /\ last # None
            /\ r.thread_id = Get(first.email, "thread_id")
            /\ r.from_email = first.email.from
            /\ r.subject = first.email.subject
            /\ r.date_received = first.date
            /\ r.message = Get(first.email, "message")
            /\ r.labels = json_dumps(last.email.labels)

\* a message was upserted again with another payload, date and label list:
\* its row has the new labels and nothing else of the new record
C9_Witness ==
    \E i \in 1..Len(rows) :
        LET r == rows[i]
            last == lastWrite[r.message_id].email
        IN  /\ r.labels = json_dumps(last.labels)
            /\ r.labels # json_dumps(firstWrite[r.message_id].email.labels)
            /\ r.from_email # last.from
            /\ r.subject # last.subject
            /\ r.message # Get(last, "message")
            /\ r.thread_id # Get(last, "thread_id")
            /\ r.date_received # parse_date(last.date_received, clock)

\* C10: the table returned by get_all_emails has no two rows with the same
\* message_id and has a row for exactly the message_ids upserted so far.
C10_OneRowPerMessageId ==
    /\ \A i, j \in 1..Len(get_all_emails) :
           i # j => get_all_emails[i].message_id # get_all_emails[j].message_id
    /\ {get_all_emails[i].message_id : i \in 1..Len(get_all_emails)} = Ingested
    /\ Len(get_all_emails) = Cardinality(Ingested)

\* two messages are stored and one of them was ingested more than once
C10_Witness ==
    /\ Len(rows) = 2
    /\ \E id \in Ingested : lastWrite[id].email # firstWrite[id].email

\* the formats that parse the Date header once its comment is cut off
MatchingFormats(date_received) ==
    {k \in 1..Len(date_formats) :
        strptime_ok(split_comment(date_received, 1), date_formats[k])}

FirstOf(S) == CHOOSE k \in S : \A j \in S : k <= j

RowOf(id) == rows[CHOOSE i \in 1..Len(rows) : rows[i].message_id = id]

\* C11: a save_email call leaves a row for its message_id whatever the Date
\* header.  If no format parses the header, every format was tried in list
\* order and the date returned, and stored if the row is new, is the clock
\* reading of the call.  If some format parses it, the formats were tried in
\* list order up to the first that parses and the date returned, and stored if
\* the row is new, is the timestamp parsed.  A batch upsert likewise gives a
\* new row with an unparseable header a clock reading.
C11_DateFallbackOnlyWhenNoFormatParses ==
    /\ lastSave.op = "save_email" =>
         LET matching == MatchingFormats(lastSave.date_received)
             parsed == timestamp(split_comment(lastSave.date_received, 1))
         IN  /\ \E i \in 1..Len(rows) : rows[i].message_id = lastSave.message_id
             /\ matching = {} =>
                   /\ lastSave.tried = [k \in 1..Len(date_formats) |-> k]
                   /\ lastSave.returned = lastSave.now
                   /\ lastSave.inserted =>
                         RowOf(lastSave.message_id).date_received = lastSave.now
             /\ matching # {} =>
                   /\ lastSave.tried = [k \in 1..FirstOf(matching) |-> k]
                   /\ lastSave.returned = parsed
                   /\ lastSave.inserted =>
                         RowOf(lastSave.message_id).date_received = parsed
    /\ \A i \in 1..Len(rows) :
         LET header == firstWrite[rows[i].message_id].email.date_received IN
             IF MatchingFormats(header) = {}
             THEN rows[i].date_received \in ClockStart..clock
             ELSE rows[i].date_received = timestamp(split_comment(header, 1))

\* after the clock has advanced, a record with an unparseable Date header was
\* stored as a new row dated by the clock, next to a row whose header parsed
\* under the second format once its comment was cut off
C11_Witness ==
    /\ lastSave.op = "save_email"
    /\ MatchingFormats(lastSave.date_received) = {}
    /\ lastSave.inserted
    /\ lastSave.now > ClockStart
    /\ RowOf(lastSave.message_id).date_received = lastSave.now
    /\ \E i \in 1..Len(rows) :
         LET header == firstWrite[rows[i].message_id].email.date_received IN
             /\ MatchingFormats(header) = {2}
             /\ split_comment(header, 1) # header
             /\ rows[i].date_received # lastSave.now

\* C15 as stated: the date a save_email call returned is the date_received
\* that get_all_emails reads back for its message_id.
C15_ReturnedIsStoredDate ==
    lastSave.op = "save_email" =>
        \A i \in 1..Len(get_all_emails) :
            get_all_emails[i].message_id = lastSave.message_id =>
                get_all_emails[i].date_received = lastSave.returned

----------------------------------------------------------------------------
(* Properties of the construction of the engine *)

\* the token sequences JSON's grammar derives with at most d levels of
\* brackets, as long as a rules file of the model can be
Join(texts) ==
    Flatten([i \in 1..Len(texts) |-> IF i = 1 THEN texts[i] ELSE <<",">> \o texts[i]])

RECURSIVE JsonTexts(_)
JsonTexts(d) ==
    IF d = 0 THEN {<<t>> : t \in DOMAIN RuleObjects}
    ELSE LET inner == JsonTexts(d - 1) IN
         inner \cup {t \in {<<"[">> \o Join(items) \o <<"]">> :
                                items \in SeqsUpTo(inner, MaxTokens \div 2)} :
                        Len(t) <= MaxTokens}

ValidTexts == JsonTexts(MaxTokens \div 2)

Unusable(source) == ~source.exists \/ source.text \notin ValidTexts

\* C12: if the rules file is missing or its text is not valid JSON, the
\* constructor raises nothing, the engine it builds has no rules, and evaluate
\* returns the empty action list.
C12_UnusableSourceGivesNoRules ==
    Unusable(ruleSource) =>
        /\ engine \in {"unbuilt", "built"}
        /\ engine = "built" => rules = <<>>
        /\ evalResult # None => evalResult.status = "ok" /\ evalResult.actions = <<>>

\* a file that opens a list holding the rule that fires on every record and
\* never closes it: the engine was built and evaluate returned no action
C12_Witness ==
    /\ ruleSource.exists
    /\ ruleSource.text \notin ValidTexts
    /\ Len(ruleSource.text) > 1
    /\ ruleSource.text[1] = "["
    /\ "A" \in Range(ruleSource.text)
    /\ engine = "built"
    /\ evalResult # None
    /\ evalResult.actions = <<>>

\* the decoder accepts exactly the texts of the grammar, and a text it
\* accepts that lists the rule firing on every record yields its actions
LoadAcceptsValidTexts ==
    /\ ruleSource.exists => (json_load(ruleSource.text).ok <=> ruleSource.text \in ValidTexts)
    /\ (ruleSource.exists /\ ruleSource.text = <<"[", "A", "]">> /\ evalResult # None)
            => evalResult.actions = ActionsOf(1)

\* C13 as stated: whatever the content of the rule objects loaded, with or
\* without their conditions, actions, fields, predicates and values, a call
\* of evaluate returns an action list.
C13_EvaluateNeverRaises ==
    (evalResult # None /\ \A k \in 1..Len(rules) : IsDict(rules[k]))
        => evalResult.status = "ok"

----------------------------------------------------------------------------
(* Properties of the predicates *)

\* t is a run of consecutive characters of v
Occurs(t, v) == \E i \in 0..Len(v) : \E j \in i..Len(v) : SubSeq(v, i + 1, j) = t

Called(name) == predResult[name] # "uncalled"

StringCall ==
    predArgs # None /\ predArgs.value.kind = "str" /\ predArgs.target.kind = "str"

\* C20: on a string field and a string target, contains is true exactly if
\* the field is not empty and the target occurs in it, and false otherwise;
\* does_not_contain is true exactly if contains is false, so the empty field
\* fails contains and passes does_not_contain for every target, the empty
\* one included.
C20_DoesNotContainNegatesContains ==
    StringCall =>
    LET v == predArgs.value.s
        t == predArgs.target.s
    IN  /\ Called("contains") =>
              predResult["contains"] = IF v # <<>> /\ Occurs(t, v) THEN "True" ELSE "False"
        /\ Called("does_not_contain") =>
              predResult["does_not_contain"] =
                  IF v # <<>> /\ Occurs(t, v) THEN "False" ELSE "True"
        /\ (Called("contains") /\ Called("does_not_contain")) =>
              /\ predResult["contains"] \in {"True", "False"}
              /\ predResult["does_not_contain"] = Not(predResult["contains"])

\* the empty field with the empty target: contains is false and
\* does_not_contain is true
C20_Witness ==
    /\ StringCall
    /\ predArgs.value.s = <<>>
    /\ predArgs.target.s = <<>>
    /\ predResult["contains"] = "False"
    /\ predResult["does_not_contain"] = "True"

\* a target in the middle of the field is found, an empty target is found in
\* a field that is not empty
ContainsFindsSubstrings ==
    (StringCall /\ Called("contains")) =>
        /\ (predArgs.value.s = <<"a", "b", "a">> /\ predArgs.target.s = <<"b">>)
              => predResult["contains"] = "True"
        /\ (predArgs.value.s = <<"a">> /\ predArgs.target.s = <<>>)
              => predResult["contains"] = "True"
        /\ (predArgs.value.s = <<"a", "b">> /\ predArgs.target.s = <<"b", "a">>)
              => predResult["contains"] = "False"

----------------------------------------------------------------------------
(* Properties of the client *)

\* C16: a client operation in which a provider call failed, with HttpError
\* or with another exception, ended by raising GmailAPIError and returned
\* nothing: fetch_inbox_emails hands over no part of the list it had built.
C16_TransportErrorsSurface ==
    clientCall # None =>
        /\ clientCall.failed =>
              clientCall.status = "GmailAPIError" /\ clientCall.returned = None
        /\ ~clientCall.failed => clientCall.status = "ok"

\* fetch_inbox_emails had the details of one message and failed on the get
\* of the next: it raised GmailAPIError
C16_Witness ==
    /\ clientCall # None
    /\ clientCall.op = "fetch_inbox_emails"
    /\ clientCall.failed
    /\ Len(clientCall.got) = 2
    /\ clientCall.listed = 2
    /\ clientCall.status = "GmailAPIError"

\* C17 as stated: when fetch_inbox_emails returns n emails, the storage has
\* been given each of them by save_email: it holds a row for each and its
\* last call was the save_email of the last one.
C17_FetchSavesEveryEmail ==
    (clientCall # None /\ clientCall.op = "fetch_inbox_emails" /\ clientCall.status = "ok") =>
        LET emails == clientCall.returned IN
            /\ \A i \in 1..Len(emails) :
                   \E j \in 1..Len(rows) : rows[j].message_id = emails[i].message_id
            /\ emails # <<>> =>
                   /\ lastSave.op = "save_email"
                   /\ lastSave.message_id = emails[Len(emails)].message_id

----------------------------------------------------------------------------
(* Properties of a run of main *)

Trace == run.trace

IsCall(p, op) == Trace[p].op = op

EvaluateCalls == SelectSeq(Trace, LAMBDA e : e.op = "evaluate")

ApplyCalls_ == SelectSeq(Trace, LAMBDA e : e.op = "apply_actions")

\* the evaluate call at p returned a list that is not empty
ReturnedActions(p) ==
    IsCall(p, "evaluate") /\ Trace[p].status = "ok" /\ Trace[p].returned # <<>>

\* C18: the evaluate calls of a run are made on the records get_all_emails
\* returned, one call per record from the first record on, and on all of them
\* when main returns.  An evaluate call that returns a non-empty list is
\* followed at once by one apply_actions call with that list and with the
\* message id and the labels of the record evaluated; apply_actions is called
\* at no other point, so never after an empty list.
C18_EvaluateOncePerRecordApplyIffActions ==
    /\ Len(EvaluateCalls) <= Len(run.snapshot)
    /\ \A k \in 1..Len(EvaluateCalls) : EvaluateCalls[k].email = run.snapshot[k]
    /\ run.pc = "done" => Len(EvaluateCalls) = Len(run.snapshot)
    /\ \A p \in 1..Len(Trace) :
           IsCall(p, "apply_actions") =>
               /\ p > 1
               /\ ReturnedActions(p - 1)
               /\ Trace[p].actions = Trace[p - 1].returned
               /\ Trace[p].msg_id = Trace[p - 1].email.message_id
               /\ Trace[p].labels = Trace[p - 1].email.labels
    /\ \A p \in 1..Len(Trace) :
           ReturnedActions(p) =>
               IF p < Len(Trace) THEN IsCall(p + 1, "apply_actions") ELSE run.pc = "apply"
    /\ run.pc = "done" =>
           Len(ApplyCalls_) =
               Cardinality({p \in 1..Len(Trace) : ReturnedActions(p)})

\* main returned after two records: the rules gave actions for one of them
\* and none for the other, and apply_actions was called once
C18_Witness ==
    /\ run.pc = "done"
    /\ Len(run.snapshot) = 2
    /\ Len(EvaluateCalls) = 2
    /\ Len(ApplyCalls_) = 1
    /\ \E k \in 1..2 : EvaluateCalls[k].status = "ok" /\ EvaluateCalls[k].returned = <<>>

Stored(msg_id) == \E j \in 1..Len(rows) : rows[j].message_id = msg_id

\* the last evaluate call before position p
LastEvaluate(p) ==
    LET before == {q \in 1..(p - 1) : IsCall(q, "evaluate")} IN
        IF before = {} THEN 0 ELSE CHOOSE q \in before : \A r \in before : r <= q

\* C19: the first call of a run is the fetch and nothing follows a fetch
\* that raised; the second is the save of exactly the emails fetched, the
\* third reads the table; every evaluate, apply_actions and modify_email call
\* comes after these three, when each fetched email has its row.  The records
\* are evaluated in the order of the table read, and the apply_actions and
\* modify_email calls for a record come between its evaluate call and the
\* next one, for a message that is stored.
C19_FetchPersistEvaluateMutate ==
    /\ \A p \in 1..Len(Trace) :
           /\ IsCall(p, "fetch_inbox_emails") <=> p = 1
           /\ IsCall(p, "save_emails") <=> p = 2
           /\ IsCall(p, "get_all_emails") <=> p = 3
    /\ Len(Trace) > 1 => Trace[1].status = "ok"
    /\ Len(Trace) > 1 => Trace[2].emails = Trace[1].returned
    /\ Len(Trace) > 2 =>
           /\ \A i \in 1..Len(Trace[1].returned) :
                  Stored(Trace[1].returned[i].message_id)
           /\ Trace[3].returned = rows
           /\ \A k \in 1..Len(EvaluateCalls) : EvaluateCalls[k].email = Trace[3].returned[k]
    /\ \A p \in 1..Len(Trace) :
           (IsCall(p, "apply_actions") \/ IsCall(p, "modify_email")) =>
               /\ LastEvaluate(p) > 0
               /\ Trace[p].msg_id = Trace[LastEvaluate(p)].email.message_id
               /\ Stored(Trace[p].msg_id)
    /\ \A p \in 1..Len(Trace) :
           IsCall(p, "modify_email") => IsCall(p - 1, "apply_actions")

\* a complete run: two messages fetched into a table that held one of them,
\* both records evaluated and mutated in table order
C19_Witness ==
    /\ run.pc = "done"
    /\ Len(Trace) = 9
    /\ Len(Trace[1].returned) = 2
    /\ Trace[1].returned[1].message_id # Trace[3].returned[1].message_id
    /\ IsCall(6, "modify_email") /\ Trace[6].msg_id = Trace[3].returned[1].message_id
    /\ IsCall(9, "modify_email") /\ Trace[9].msg_id = Trace[3].returned[2].message_id

----------------------------------------------------------------------------
(* Properties of the date predicates *)

DateCall == predArgs # None /\ predArgs.value.kind = "timedelta"

DateCalled(name) == DateCall /\ predResult[name] # "uncalled"

\* the number of days a target stands for
DaysOf(target) == CHOOSE n \in 0..MaxDays : target \in DaysTargets(n)

\* C21: on an elapsed duration and a target of N days, less_than_days is true
\* iff the duration is strictly less than N days and greater_than_days is true
\* iff it is strictly greater; at exactly N days both are false and at every
\* other age exactly one of them is true.
C21_DatePredicatesStrict ==
    DateCall =>
        LET age == predArgs.value.secs
            limit == DaysOf(predArgs.target) * SecondsPerDay
            less == predResult["less_than_days"]
            greater == predResult["greater_than_days"]
        IN  /\ less # "uncalled" => less = Bool(age < limit)
            /\ greater # "uncalled" => greater = Bool(age > limit)
            /\ (less # "uncalled" /\ greater # "uncalled") =>
                   IF age = limit THEN less = "False" /\ greater = "False"
                   ELSE (less = "True") # (greater = "True")

\* both predicates were called on a message exactly one day old, the number
\* of days given as a string
C21_Witness ==
    /\ DateCalled("less_than_days") /\ DateCalled("greater_than_days")
    /\ predArgs.value.secs = SecondsPerDay
    /\ predArgs.target = PyStr(<<"1">>)
    /\ predResult["less_than_days"] = "False"
    /\ predResult["greater_than_days"] = "False"

----------------------------------------------------------------------------
(* Properties of the clock readings of evaluate *)

\* C22: in a call of evaluate that returns, two rules with the same mode and
\* the same conditions both fire or both do not fire, every date_received
\* condition of the call being compared against one value of now.
C22_IdenticalRulesAgree ==
    (evalResult # None /\ evalResult.status = "ok") =>
        \A j, k \in 1..Len(rules) :
            (/\ rule_mode(rules[j]) = rule_mode(rules[k])
             /\ rules[j].conditions = rules[k].conditions)
                => evalResult.fired[j] = evalResult.fired[k]

----------------------------------------------------------------------------
(* Properties of the paging of fetch_inbox_emails *)

\* the page the provider holds for a token
PageAt(token) ==
    IF remote.listing = <<>> THEN <<>>
    ELSE remote.listing[IF token = NoToken THEN 1 ELSE token]

\* a page that is empty or names no next page
FinalPage(page) == "messages" \notin DOMAIN page \/ "nextPageToken" \notin DOMAIN page

MessagesOf(page) == IF "messages" \in DOMAIN page THEN page.messages ELSE <<>>

\* the pages read so far; asked holds the tokens of the list calls answered
PagesRead == [i \in 1..Len(fetch.asked) |-> PageAt(fetch.asked[i])]

\* following the tokens from the first call leads to a final page
RECURSIVE LeadsToFinalPage(_, _)
LeadsToFinalPage(token, fuel) ==
    \/ FinalPage(PageAt(token))
    \/ fuel > 0 /\ LeadsToFinalPage(PageAt(token).nextPageToken, fuel - 1)

FetchEnded == fetch.pc \in {"returned", "raised"}

\* the paging and the result of fetch_inbox_emails, in every state of a call
FetchPaging ==
    LET read == PagesRead
        n == Len(read)
    IN  \* the first call carries no token, each later one the token of the
        \* page before it
        /\ \A i \in 1..n :
               fetch.asked[i] = IF i = 1 THEN NoToken ELSE read[i - 1].nextPageToken
        \* no page before the last one read is final, and the loop is left
        \* exactly on a final page
        /\ \A i \in 1..(n - 1) : ~FinalPage(read[i])
        /\ fetch.pc \in {"details", "returned"} => n > 0 /\ FinalPage(read[n])
        /\ fetch.pc = "paging" => \A i \in 1..n : ~FinalPage(read[i])
        \* the ids listed are those of the pages read, in listing order
        /\ fetch.all_messages = Flatten([i \in 1..n |-> MessagesOf(read[i])])
        \* one record per id listed, in listing order
        /\ Len(fetch.emails) <= Len(fetch.all_messages)
        /\ \A i \in 1..Len(fetch.emails) :
               fetch.emails[i] =
                   email_details(fetch.all_messages[i],
                                 messages_get(remote.labels, fetch.all_messages[i]))
        /\ fetch.pc = "returned" =>
               /\ fetch.returned = fetch.emails
               /\ Len(fetch.returned) = Len(fetch.all_messages)
               /\ \A i \in 1..Len(fetch.returned) :
                      fetch.returned[i].message_id = fetch.all_messages[i]

\* C23: fetch_inbox_emails asks for the first page without a token and for
\* each later page with the nextPageToken of the page before; it stops
\* listing at the first page that is empty or has no nextPageToken and
\* returns one record per message id listed on the pages read, in listing
\* order.  If following the tokens leads to such a page, the call ends: it
\* returns, or raises when a provider call fails.
C23_PagingStopsAtFinalPage ==
    /\ []FetchPaging
    /\ LeadsToFinalPage(NoToken, MaxPages) ~> FetchEnded

\* two pages were read, the second one the last, and the call returned the
\* records of the two messages in listing order
C23_Witness ==
    /\ fetch.pc = "returned"
    /\ fetch.asked = <<NoToken, 2>>
    /\ Len(fetch.returned) = 2
    /\ fetch.returned[1].message_id = M2
    /\ fetch.returned[2].message_id = M1

\* a listing whose tokens go round is never read to an end
CyclicListingNeverReturns ==
    ~LeadsToFinalPage(NoToken, MaxPages) => fetch.pc \in {"paging", "raised"}

----------------------------------------------------------------------------
(* Properties of authentication *)

Made(op) == \E i \in 1..Len(auth.calls) : auth.calls[i].op = op

Times(op) == Cardinality({i \in 1..Len(auth.calls) : auth.calls[i].op = op})

RefreshSucceeded ==
    \E i \in 1..Len(auth.calls) :
        auth.calls[i].op = "refresh" /\ auth.calls[i].outcome = "ok"

RefreshFailed ==
    \E i \in 1..Len(auth.calls) :
        auth.calls[i].op = "refresh" /\ auth.calls[i].outcome # "ok"

\* the interactive flow was started: its construction or its run was called
FlowRun == Made("from_client_secrets_file") \/ Made("run_local_server")

IsFlowCall(i) == auth.calls[i].op \in {"from_client_secrets_file", "run_local_server"}

LoadedValid == auth.loaded # None /\ auth.loaded.valid

LoadedExpiredWithRefreshToken ==
    /\ auth.loaded # None
    /\ ~auth.loaded.valid /\ auth.loaded.expired /\ auth.loaded.refresh_token

\* C24: with valid credentials from the token file neither a refresh nor the
\* interactive flow is run.  With expired credentials that have a refresh
\* token the refresh is called once; after a refresh that succeeded the flow
\* is not run and the refreshed credentials are written to the token path
\* before the service is built.  The flow is run only if the token file gave
\* no credentials or the refresh failed, and after a failed refresh only
\* once the token file has been removed.
C24_AuthenticationProtocol ==
    /\ LoadedValid => ~Made("refresh") /\ ~FlowRun
    /\ LoadedExpiredWithRefreshToken =>
           /\ Times("refresh") <= 1
           /\ auth.pc \notin {"start", "loaded"} => Times("refresh") = 1
    /\ RefreshSucceeded =>
           /\ ~FlowRun
           /\ (auth.pc \in {"saved", "returned"} \/ Made("build")) =>
                  \E i \in 1..Len(auth.calls) :
                      /\ auth.calls[i].op = "write"
                      /\ auth.calls[i].creds = refreshed(auth.loaded)
                      /\ auth.calls[i].outcome = "ok" =>
                             auth.token = [creds |-> refreshed(auth.loaded)]
    /\ FlowRun => auth.loaded = None \/ RefreshFailed
    /\ (FlowRun /\ RefreshFailed) =>
           \E i, j \in 1..Len(auth.calls) :
               /\ i < j
               /\ auth.calls[i] = Call("remove", "ok")
               /\ IsFlowCall(j)

\* expired credentials were refreshed and written, the service was built
\* and no flow was run
C24_Witness ==
    /\ auth.pc = "returned"
    /\ LoadedExpiredWithRefreshToken
    /\ RefreshSucceeded
    /\ auth.token = [creds |-> refreshed(auth.loaded)]
    /\ auth.service = [credentials |-> refreshed(auth.loaded)]

\* the refresh failed, the token file was removed and the flow gave new
\* credentials
FlowAfterFailedRefresh ==
    /\ auth.pc = "returned"
    /\ RefreshFailed
    /\ auth.service = [credentials |-> FlowCreds]

\* C29: a service that _authenticate returns was built with valid
\* credentials, and only valid credentials are written to the token file.
C29_ServiceBuiltWithValidCredentials ==
    /\ auth.pc = "returned" => auth.service.credentials.valid
    /\ \A i \in 1..Len(auth.calls) :
           auth.calls[i].op = "write" => auth.calls[i].creds.valid

----------------------------------------------------------------------------
(* Properties of the delta as a pair of sets *)

\* C25: in the delta of every invocation that resolves its list, no label
\* occurs twice in add and no label occurs twice in remove, also when an
\* action occurs more than once in the list.
C25_DeltaHasNoRepeatedLabel ==
    \A i \in 1..Len(passes) :
        passes[i].status # "KeyError" => NoDup(passes[i].add) /\ NoDup(passes[i].remove)

----------------------------------------------------------------------------
(* Properties of the labels main passes to apply_actions *)

\* the labels of the stored record of a message: those of its latest upsert
StoredLabels(msg_id) == lastWrite[msg_id].email.labels

\* C26: every apply_actions call of a run that resolves its list decides
\* each action against the stored labels of the record, label by label: the
\* delta is the one computed from the list of the record's labels, and
\* modify_email is called with it exactly when it is not empty.
C26_ActionsDecidedPerLabel ==
    \A p \in 1..Len(Trace) :
        (IsCall(p, "apply_actions") /\ Trace[p].status # "KeyError") =>
            LET d == compute_delta(PyList(StoredLabels(Trace[p].msg_id)), Trace[p].actions)
            IN  IF sink_wanted(d)
                THEN /\ p < Len(Trace)
                     /\ IsCall(p + 1, "modify_email")
                     /\ Trace[p + 1].add = d.add
                     /\ Trace[p + 1].remove = d.remove
                ELSE p < Len(Trace) => ~IsCall(p + 1, "modify_email")

----------------------------------------------------------------------------
(* Properties of two consecutive runs of main *)

Labels(list) == {list[i] : i \in 1..Len(list)}

\* the modify_email calls of a trace
Mutations(trace) == {trace[p] : p \in {q \in 1..Len(trace) : trace[q].op = "modify_email"}}

\* C27: no modify_email call of the second run adds to a message a label
\* that a successful call of the first run added to it, or removes one that
\* such a call removed, for every stored message.
C27_NoRepeatedMutationInSecondRun ==
    run.nth = "second" =>
        \A e1 \in Mutations(run.first), e2 \in Mutations(run.trace) :
            (e1.status = "ok" /\ e1.msg_id = e2.msg_id) =>
                /\ Labels(e1.add) \cap Labels(e2.add) = {}
                /\ Labels(e1.remove) \cap Labels(e2.remove) = {}

\* a message fetched again in the second run gets no mutation call there
\* that repeats a change of the first run, unless one of its labels contains
\* the name of another label
RefetchedNotMutatedAgain ==
    run.nth = "second" =>
        \A e1 \in Mutations(run.first), e2 \in Mutations(run.trace) :
            (/\ e1.status = "ok" /\ e1.msg_id = e2.msg_id
             /\ L1_UNREAD \notin Labels(remote.labels[e2.msg_id])
             /\ \E i \in 1..Len(run.fetched) : run.fetched[i].message_id = e2.msg_id) =>
                /\ Labels(e1.add) \cap Labels(e2.add) = {}
                /\ Labels(e1.remove) \cap Labels(e2.remove) = {}

----------------------------------------------------------------------------
(* Properties of save_emails against save_email *)

\* both ways of saving the list are through
BothSaved == twin.called /\ twin.saved = Len(twin.emails)

Positions(id) == {i \in 1..Len(twin.emails) : twin.emails[i].message_id = id}

Lowest(S) == CHOOSE i \in S : \A j \in S : i <= j

Highest(S) == CHOOSE i \in S : \A j \in S : j <= i

RowIn(table, id) == table[CHOOSE i \in 1..Len(table) : table[i].message_id = id]

Holds(table, id) == \E i \in 1..Len(table) : table[i].message_id = id

\* C28: once a list of records has been saved by save_emails into one copy
\* of a table and by save_email, record by record in list order, into
\* another, the two copies are the same table.  For a message_id of the
\* list that the table did not hold, the row has the content and the date of
\* the first record of the list with that id, and for every message_id of
\* the list the row has the labels of the last one.  save_emails of the
\* empty list leaves the table as it was.
C28_SaveEmailsIsSaveEmailInOrder ==
    /\ BothSaved => twin.batch = twin.single
    /\ twin.called =>
           \A id \in MsgIds :
               Positions(id) # {} =>
                   LET first == twin.emails[Lowest(Positions(id))]
                       last == twin.emails[Highest(Positions(id))]
                       row == RowIn(twin.batch, id)
                   IN  /\ Holds(twin.batch, id)
                       /\ row.labels = json_dumps(last.labels)
                       /\ ~Holds(twin.before, id) =>
                              /\ row.from_email = first.from
                              /\ row.subject = first.subject
                              /\ row.thread_id = Get(first, "thread_id")
                              /\ row.message = Get(first, "message")
                              /\ row.date_received = parse_date(first.date_received, clock)
    /\ (twin.called /\ twin.emails = <<>>) => twin.batch = twin.before

\* a list with the same new message_id twice, with different content and
\* labels, saved both ways into a table that holds another message
C28_Witness ==
    /\ BothSaved
    /\ Len(twin.emails) = 2
    /\ twin.emails[1].message_id = twin.emails[2].message_id
    /\ twin.emails[1].from # twin.emails[2].from
    /\ twin.emails[1].labels # twin.emails[2].labels
    /\ ~Holds(twin.before, twin.emails[1].message_id)
    /\ twin.before # <<>>
    /\ twin.batch # twin.before

\* save_emails of the empty list was called on a table that holds rows
EmptyListSaved == twin.called /\ twin.emails = <<>> /\ twin.before # <<>>

----------------------------------------------------------------------------
(* Properties of the mode of a rule *)

OtherMode(rule) == "mode" \in DOMAIN rule /\ Lower(rule.mode) \notin {M_ALL, M_ANY}

RemoveAt(s, k) == [i \in 1..(Len(s) - 1) |-> IF i < k THEN s[i] ELSE s[i + 1]]

\* the rule with the mode all written out
WithModeAll(rule) == [mode |-> M_ALL] @@ rule

\* C30: a rule whose mode, in lower case, is neither all nor any does not
\* fire, and the call of evaluate ends as it does on the rule set without
\* that rule: the same actions are returned, or the same exception is
\* raised.  A rule without mode does what the same rule with mode all does:
\* the call ends in the same way, with the same rules fired and the same
\* actions.
C30_OtherModeNeverFiresNoModeIsAll ==
    evalResult # None =>
        \A k \in 1..Len(rules) :
            /\ OtherMode(rules[k]) =>
                   LET without == evaluate(evalArg, RemoveAt(rules, k),
                                           RemoveAt(evalResult.nows, k))
                   IN  /\ k <= Len(evalResult.fired) => ~evalResult.fired[k]
                       /\ without.status = evalResult.status
                       /\ without.actions = evalResult.actions
            /\ "mode" \notin DOMAIN rules[k] =>
                   LET explicit == evaluate(evalArg,
                                            [rules EXCEPT ![k] = WithModeAll(@)],
                                            evalResult.nows)
                   IN  /\ explicit.status = evalResult.status
                       /\ explicit.actions = evalResult.actions
                       /\ explicit.fired = evalResult.fired

\* a rule of another mode whose conditions all hold did not fire, and the
\* rule without mode after it fired on its empty list of conditions
C30_Witness ==
    /\ Returned
    /\ Len(rules) = 2
    /\ OtherMode(rules[1])
    /\ \A i \in 1..Len(rules[1].conditions) :
           HoldsOn(rules[1].conditions[i], evalArg, evalResult.nows[1])
    /\ ~evalResult.fired[1]
    /\ "mode" \notin DOMAIN rules[2]
    /\ evalResult.fired[2]
    /\ evalResult.actions = rules[2].actions

====
